---- MODULE Spec2Model ----
(***************************************************************************)
(* A model of the markdown parsing engine (src/src/parser.rs) and of the   *)
(* HTML rendering engine (src/src/html_writer.rs) of wtf, of the title     *)
(* extraction of its server (src/src/server.rs) and of the path            *)
(* resolution, the 404 pages and the sitemap of its router                 *)
(* (src/src/router.rs).                                                    *)
(*                                                                         *)
(* Strings are sequences of one-character strings.  The parser's cursor    *)
(* `pos` is the 0-based index of parser.rs, so chars[pos] of the source is *)
(* chars[pos + 1] here.  A function of the parser that returns             *)
(* Result<T, ParseError> and moves the cursor is an operator from          *)
(* (chars, pos) to a record: [ok |-> TRUE, pos, val] or                    *)
(* [ok |-> FALSE, err].  A loop of the source is a RECURSIVE operator      *)
(* whose parameters are the variables the loop updates.                    *)
(***************************************************************************)
EXTENDS Integers, Sequences, FiniteSets, TLC

VARIABLES text, stage, outcome, document, html, page_title, request_path, resolved,
          fs_files, read_dir, sitemap, cursor

vars == <<text, stage, outcome, document, html, page_title, request_path, resolved,
          fs_files, read_dir, sitemap, cursor>>

(***************************************************************************)
(* Constants of parser.rs                                                  *)
(***************************************************************************)
HEADING_CHAR == "#"
BOLD_DELIM == <<"*", "*">>
ITALIC_DELIM == "*"
NEWLINE_CHAR == "\n"
LINK_OPEN == "["
LINK_CLOSE == "]"
URL_OPEN == "("
URL_CLOSE == ")"
IMAGE_PREFIX == "!"
ESCAPE_CHAR == "\\"
MIN_HEADING_LEVEL == 1
MAX_HEADING_LEVEL == 6

\* Option<char>::None: what peek returns at the end of input.
NoChar == ""

(***************************************************************************)
(* Results                                                                 *)
(***************************************************************************)
Ok(pos, val) == [ok |-> TRUE, pos |-> pos, val |-> val]
Err(e) == [ok |-> FALSE, err |-> e]

\* ParseError.  Every variant is a record of the same fields, so that two errors
\* can be compared; a field a variant does not carry is <<>> or 0.
UnclosedDelimiter(delimiter, position) ==
    [kind |-> "UnclosedDelimiter", delimiter |-> delimiter, position |-> position,
     level |-> 0]
InvalidHeadingLevel(level) ==
    [kind |-> "InvalidHeadingLevel", delimiter |-> <<>>, position |-> 0,
     level |-> level]
MalformedLink(position) ==
    [kind |-> "MalformedLink", delimiter |-> <<>>, position |-> position, level |-> 0]
MalformedImage(position) ==
    [kind |-> "MalformedImage", delimiter |-> <<>>, position |-> position, level |-> 0]

(***************************************************************************)
(* The document tree                                                       *)
(***************************************************************************)
Text(s) == [kind |-> "Text", s |-> s, children |-> <<>>, url |-> <<>>]
LineBreak == [kind |-> "LineBreak", s |-> <<>>, children |-> <<>>, url |-> <<>>]
Bold(children) == [kind |-> "Bold", s |-> <<>>, children |-> children, url |-> <<>>]
Italic(children) == [kind |-> "Italic", s |-> <<>>, children |-> children, url |-> <<>>]
Link(txt, url) == [kind |-> "Link", s |-> <<>>, children |-> txt, url |-> url]

Paragraph(inlines) ==
    [kind |-> "Paragraph", inlines |-> inlines, alt_text |-> <<>>, url |-> <<>>]
Image(alt_text, url) ==
    [kind |-> "Image", inlines |-> <<>>, alt_text |-> alt_text, url |-> url]

SectionNew(level, title) ==
    [level |-> level, title |-> title, content |-> <<>>, subsections |-> <<>>]

DocumentNew == [content |-> <<>>, sections |-> <<>>]

(***************************************************************************)
(* Utility methods of the parser                                           *)
(***************************************************************************)
peek(chars, pos) == IF pos < Len(chars) THEN chars[pos + 1] ELSE NoChar

peek_at(chars, pos, offset) ==
    IF pos + offset < Len(chars) THEN chars[pos + offset + 1] ELSE NoChar

starts_with(chars, pos, s) ==
    IF pos + Len(s) > Len(chars)
    THEN FALSE
    ELSE SubSeq(chars, pos + 1, pos + Len(s)) = s

is_eof(chars, pos) == pos >= Len(chars)

RECURSIVE skip_empty_lines(_, _)
skip_empty_lines(chars, pos) ==
    IF peek(chars, pos) = NEWLINE_CHAR
    THEN skip_empty_lines(chars, pos + 1)
    ELSE pos

\* str::trim on the characters the model uses: ' ', '\t' and '\n' are whitespace.
IsWhitespace(c) == c \in {" ", "\t", "\n"}

RECURSIVE TrimStart(_)
TrimStart(s) ==
    IF s # <<>> /\ IsWhitespace(Head(s)) THEN TrimStart(Tail(s)) ELSE s

RECURSIVE TrimEnd(_)
TrimEnd(s) ==
    IF s # <<>> /\ IsWhitespace(s[Len(s)])
    THEN TrimEnd(SubSeq(s, 1, Len(s) - 1))
    ELSE s

\* Mutant: only the leading whitespace is removed.
trim_start_only(s) == TrimStart(s)

trim(s) == TrimEnd(TrimStart(s))

(***************************************************************************)
(* Heading level                                                           *)
(***************************************************************************)
\* Mutant: the level scan without its cap.
HeadingScanUncapped(c, level) == c = HEADING_CHAR

\* The cap of the level scan: `level < MAX_HEADING_LEVEL`.
HeadingScanContinues(c, level) == c = HEADING_CHAR /\ level < MAX_HEADING_LEVEL

RECURSIVE HeadingLevelLoop(_, _, _)
HeadingLevelLoop(chars, pos, level) ==
    IF HeadingScanContinues(peek(chars, pos), level)
    THEN HeadingLevelLoop(chars, pos + 1, level + 1)
    ELSE [pos |-> pos, level |-> level]

parse_heading_level(chars, pos) ==
    LET r == HeadingLevelLoop(chars, pos, 0)
    IN  IF r.level < MIN_HEADING_LEVEL
        THEN Err(InvalidHeadingLevel(r.level))
        ELSE Ok(r.pos, r.level)

\* A heading seen at a `!` as well as at a `#`.
is_heading_or_bang(chars, pos) == peek(chars, pos) \in {HEADING_CHAR, IMAGE_PREFIX}

is_heading(chars, pos) == peek(chars, pos) = HEADING_CHAR

RECURSIVE PeekLevelLoop(_, _, _)
PeekLevelLoop(chars, temp_pos, level) ==
    IF temp_pos < Len(chars) /\ chars[temp_pos + 1] = HEADING_CHAR
       /\ level < MAX_HEADING_LEVEL
    THEN PeekLevelLoop(chars, temp_pos + 1, level + 1)
    ELSE level

\* Mutant: the peek starts one character late and counts one `#` less.
peek_heading_level_late(chars, pos) == PeekLevelLoop(chars, pos + 1, 0)

peek_heading_level(chars, pos) == PeekLevelLoop(chars, pos, 0)

(***************************************************************************)
(* Inline-level parsing                                                    *)
(***************************************************************************)
\* The plain-text scan with a backslash that escapes the character after it.
RECURSIVE parse_text_inline_loop_escaping(_, _, _)
parse_text_inline_loop_escaping(chars, pos, txt) ==
    LET ch == peek(chars, pos)
    IN  IF ch = NoChar \/ ch = NEWLINE_CHAR \/ ch = ITALIC_DELIM \/ ch = LINK_OPEN
        THEN Ok(pos, txt)
        ELSE IF ch = ESCAPE_CHAR /\ peek_at(chars, pos, 1) # NoChar
        THEN parse_text_inline_loop_escaping(chars, pos + 2,
                                             Append(txt, peek_at(chars, pos, 1)))
        ELSE parse_text_inline_loop_escaping(chars, pos + 1, Append(txt, ch))

RECURSIVE parse_text_inline_loop(_, _, _)
parse_text_inline_loop(chars, pos, txt) ==
    LET ch == peek(chars, pos)
    IN  IF ch = NoChar \/ ch = NEWLINE_CHAR \/ ch = ITALIC_DELIM \/ ch = LINK_OPEN
        THEN Ok(pos, txt)
        ELSE parse_text_inline_loop(chars, pos + 1, Append(txt, ch))

parse_text_inline(chars, pos) == parse_text_inline_loop(chars, pos, <<>>)

RECURSIVE parse_text_until_loop(_, _, _, _)
parse_text_until_loop(chars, pos, stop_strings, txt) ==
    LET ch == peek(chars, pos)
        should_stop == \E stop_str \in stop_strings : starts_with(chars, pos, stop_str)
    IN  IF ch = NoChar \/ should_stop
        THEN Ok(pos, txt)
        ELSE parse_text_until_loop(chars, pos + 1, stop_strings, Append(txt, ch))

parse_text_until(chars, pos, stop_strings) ==
    parse_text_until_loop(chars, pos, stop_strings, <<>>)

\* children.push(Text(text)) unless the text is empty
PushText(nodes, txt) == IF txt # <<>> THEN Append(nodes, Text(txt)) ELSE nodes

\* Mutant: a `*` is an Italic delimiter also when it is the first of `**`.
AtItalicDelimAnyStar(chars, pos) == peek(chars, pos) = ITALIC_DELIM

\* `self.peek() == Some(ITALIC_DELIM) && !self.starts_with(BOLD_DELIM)`
AtItalicDelim(chars, pos) ==
    peek(chars, pos) = ITALIC_DELIM /\ ~starts_with(chars, pos, BOLD_DELIM)

BoldStops == {BOLD_DELIM, <<"*">>, <<"[">>, <<"\n">>}
ItalicStops == {<<"*">>, <<"[">>, <<"\n">>}
LinkStops == {BOLD_DELIM, <<"*">>, <<"]">>, <<"\n">>}

\* Mutant: the end of input closes the URL of a link.
LinkUrlEndLenient(chars, pos, start_pos, txt, url) ==
    Ok(IF peek(chars, pos) = URL_CLOSE THEN pos + 1 ELSE pos, Link(txt, trim(url)))

\* The `?` after the closing scan of a link's URL: end of input before `)`.
LinkUrlEnd(chars, pos, start_pos, txt, url) ==
    IF peek(chars, pos) # URL_CLOSE
    THEN Err(MalformedLink(start_pos))
    ELSE Ok(pos + 1, Link(txt, trim(url)))

RECURSIVE parse_link_url_loop(_, _, _, _, _)
parse_link_url_loop(chars, pos, start_pos, txt, url) ==
    IF ~is_eof(chars, pos) /\ peek(chars, pos) # URL_CLOSE
    THEN IF peek(chars, pos) = NEWLINE_CHAR
         THEN Err(MalformedLink(start_pos))
         ELSE parse_link_url_loop(chars, pos + 1, start_pos, txt,
                                  Append(url, peek(chars, pos)))
    ELSE LinkUrlEnd(chars, pos, start_pos, txt, url)

\* After the link text: `]`, then `(`, then the URL.
parse_link_tail(chars, pos, start_pos, txt) ==
    IF peek(chars, pos) # LINK_CLOSE
    THEN Err(MalformedLink(start_pos))
    ELSE IF peek(chars, pos + 1) # URL_OPEN
         THEN Err(MalformedLink(start_pos))
         ELSE parse_link_url_loop(chars, pos + 2, start_pos, txt, <<>>)

RECURSIVE parse_bold_loop(_, _, _, _)
RECURSIVE parse_italic_loop(_, _, _, _)
RECURSIVE parse_link_text_loop(_, _, _, _)

parse_bold(chars, pos) == parse_bold_loop(chars, pos + 2, pos, <<>>)

parse_italic(chars, pos) == parse_italic_loop(chars, pos + 1, pos, <<>>)

parse_link(chars, pos) == parse_link_text_loop(chars, pos + 1, pos, <<>>)

\* Mutant: the error of an unclosed Bold names the Italic delimiter.
BoldAtNewlineAsItalic(start_pos) == Err(UnclosedDelimiter(<<ITALIC_DELIM>>, start_pos))

\* What the closing scan of a Bold does at a newline.
BoldAtNewline(start_pos) == Err(UnclosedDelimiter(BOLD_DELIM, start_pos))

\* What the closing scan of a Bold does at the end of input.
BoldAtEof(start_pos) == Err(UnclosedDelimiter(BOLD_DELIM, start_pos))

\* What the closing scan of an Italic does at a newline or the end of input.
ItalicUnclosed(start_pos) == Err(UnclosedDelimiter(<<ITALIC_DELIM>>, start_pos))

\* `children.push(self.parse_italic()?)`, `children.push(self.parse_link()?)`
\* in parse_bold, then the next iteration; r is what the nested call returned.
BoldPushNode(chars, start_pos, children, r) ==
    IF r.ok
    THEN parse_bold_loop(chars, r.pos, start_pos, Append(children, r.val))
    ELSE r

\* The text branch of parse_bold; r is what parse_text_until returned.
BoldPushText(chars, start_pos, children, r) ==
    parse_bold_loop(chars, r.pos, start_pos, PushText(children, r.val))

parse_bold_loop(chars, pos, start_pos, children) ==
    IF is_eof(chars, pos)
    THEN BoldAtEof(start_pos)
    ELSE IF starts_with(chars, pos, BOLD_DELIM)
    THEN Ok(pos + 2, Bold(children))
    ELSE IF peek(chars, pos) = NEWLINE_CHAR
    THEN BoldAtNewline(start_pos)
    ELSE IF AtItalicDelim(chars, pos)
    THEN BoldPushNode(chars, start_pos, children, parse_italic(chars, pos))
    ELSE IF peek(chars, pos) = LINK_OPEN
    THEN BoldPushNode(chars, start_pos, children, parse_link(chars, pos))
    ELSE BoldPushText(chars, start_pos, children,
                      parse_text_until(chars, pos, BoldStops))

\* `children.push(self.parse_bold()?)`, `children.push(self.parse_link()?)`
\* in parse_italic, then the next iteration.
ItalicPushNode(chars, start_pos, children, r) ==
    IF r.ok
    THEN parse_italic_loop(chars, r.pos, start_pos, Append(children, r.val))
    ELSE r

\* The text branch of parse_italic.
ItalicPushText(chars, start_pos, children, r) ==
    parse_italic_loop(chars, r.pos, start_pos, PushText(children, r.val))

parse_italic_loop(chars, pos, start_pos, children) ==
    IF is_eof(chars, pos)
    THEN ItalicUnclosed(start_pos)
    ELSE IF AtItalicDelim(chars, pos)
    THEN Ok(pos + 1, Italic(children))
    ELSE IF peek(chars, pos) = NEWLINE_CHAR
    THEN ItalicUnclosed(start_pos)
    ELSE IF starts_with(chars, pos, BOLD_DELIM)
    THEN ItalicPushNode(chars, start_pos, children, parse_bold(chars, pos))
    ELSE IF peek(chars, pos) = LINK_OPEN
    THEN ItalicPushNode(chars, start_pos, children, parse_link(chars, pos))
    ELSE ItalicPushText(chars, start_pos, children,
                        parse_text_until(chars, pos, ItalicStops))

\* `text.push(self.parse_bold()?)`, `text.push(self.parse_italic()?)` in
\* parse_link, then the next iteration.
LinkPushNode(chars, start_pos, txt, r) ==
    IF r.ok
    THEN parse_link_text_loop(chars, r.pos, start_pos, Append(txt, r.val))
    ELSE r

\* The text branch of parse_link.
LinkPushText(chars, start_pos, txt, r) ==
    parse_link_text_loop(chars, r.pos, start_pos, PushText(txt, r.val))

parse_link_text_loop(chars, pos, start_pos, txt) ==
    IF ~is_eof(chars, pos) /\ peek(chars, pos) # LINK_CLOSE
    THEN IF peek(chars, pos) = NEWLINE_CHAR
         THEN Err(MalformedLink(start_pos))
         ELSE IF starts_with(chars, pos, BOLD_DELIM)
         THEN LinkPushNode(chars, start_pos, txt, parse_bold(chars, pos))
         ELSE IF AtItalicDelim(chars, pos)
         THEN LinkPushNode(chars, start_pos, txt, parse_italic(chars, pos))
         ELSE LinkPushText(chars, start_pos, txt,
                           parse_text_until(chars, pos, LinkStops))
    ELSE parse_link_tail(chars, pos, start_pos, txt)

RECURSIVE parse_inline_content_loop(_, _, _)

\* `nodes.push(self.parse_bold()?)` and the like in parse_inline_content, then
\* the next iteration.
InlinePushNode(chars, nodes, r) ==
    IF r.ok
    THEN parse_inline_content_loop(chars, r.pos, Append(nodes, r.val))
    ELSE r

\* The text branch of parse_inline_content.
InlinePushText(chars, nodes, r) ==
    parse_inline_content_loop(chars, r.pos, PushText(nodes, r.val))

parse_inline_content_loop(chars, pos, nodes) ==
    IF ~is_eof(chars, pos) /\ peek(chars, pos) # NEWLINE_CHAR
    THEN IF starts_with(chars, pos, BOLD_DELIM)
         THEN InlinePushNode(chars, nodes, parse_bold(chars, pos))
         ELSE IF AtItalicDelim(chars, pos)
         THEN InlinePushNode(chars, nodes, parse_italic(chars, pos))
         ELSE IF peek(chars, pos) = LINK_OPEN
         THEN InlinePushNode(chars, nodes, parse_link(chars, pos))
         ELSE InlinePushText(chars, nodes, parse_text_inline(chars, pos))
    ELSE Ok(pos, nodes)

parse_inline_content(chars, pos) == parse_inline_content_loop(chars, pos, <<>>)

(***************************************************************************)
(* Block-level parsing                                                     *)
(***************************************************************************)
\* The end of the URL scan of an image: the cursor is after `)`, or at the end
\* of input when the `while let Some(ch)` loop ran out of characters.
ImageEnd(chars, pos, alt_text, url) ==
    Ok(IF peek(chars, pos) = NEWLINE_CHAR THEN pos + 1 ELSE pos,
       Image(alt_text, trim(url)))

\* The URL scan of an image at the end of input: the loop ends, no error.
ImageUrlAtEof(chars, pos, start_pos, alt_text, url) ==
    ImageEnd(chars, pos, alt_text, url)

RECURSIVE parse_image_url_loop(_, _, _, _, _)
parse_image_url_loop(chars, pos, start_pos, alt_text, url) ==
    IF peek(chars, pos) = NoChar
    THEN ImageUrlAtEof(chars, pos, start_pos, alt_text, url)
    ELSE IF peek(chars, pos) = URL_CLOSE
    THEN ImageEnd(chars, pos + 1, alt_text, url)
    ELSE IF peek(chars, pos) = NEWLINE_CHAR
    THEN Err(MalformedImage(start_pos))
    ELSE parse_image_url_loop(chars, pos + 1, start_pos, alt_text,
                              Append(url, peek(chars, pos)))

\* After the alt text: expect `(`.
parse_image_tail(chars, pos, start_pos, alt_text) ==
    IF peek(chars, pos) # URL_OPEN
    THEN Err(MalformedImage(start_pos))
    ELSE parse_image_url_loop(chars, pos + 1, start_pos, alt_text, <<>>)

\* Mutant: the backslash is pushed and the character after it is left to the
\* next iteration.
AltEscapeKept(chars, pos, alt_text) ==
    [pos |-> pos + 1, alt_text |-> Append(alt_text, ESCAPE_CHAR)]

\* The escape branch of the alt text scan: the backslash is consumed, and the
\* character after it, when there is one, is pushed and consumed.
AltEscape(chars, pos, alt_text) ==
    IF peek(chars, pos + 1) # NoChar
    THEN [pos |-> pos + 2, alt_text |-> Append(alt_text, peek(chars, pos + 1))]
    ELSE [pos |-> pos + 1, alt_text |-> alt_text]

RECURSIVE parse_image_alt_loop(_, _, _, _)

\* The next iteration of the alt text scan after an escape; e is AltEscape's.
AltAfterEscape(chars, start_pos, e) ==
    parse_image_alt_loop(chars, e.pos, start_pos, e.alt_text)

parse_image_alt_loop(chars, pos, start_pos, alt_text) ==
    IF peek(chars, pos) = NoChar
    THEN parse_image_tail(chars, pos, start_pos, alt_text)
    ELSE IF peek(chars, pos) = ESCAPE_CHAR
    THEN AltAfterEscape(chars, start_pos, AltEscape(chars, pos, alt_text))
    ELSE IF peek(chars, pos) = LINK_CLOSE
    THEN parse_image_tail(chars, pos + 1, start_pos, alt_text)
    ELSE parse_image_alt_loop(chars, pos + 1, start_pos,
                              Append(alt_text, peek(chars, pos)))

parse_image_block(chars, pos) == parse_image_alt_loop(chars, pos + 2, pos, <<>>)

\* Mutant: the lines are joined without a LineBreak.
ExtendLinesUnbroken(inline_nodes, first_line, line_content) ==
    inline_nodes \o line_content

\* `inline_nodes.extend(line_content)`, after a LineBreak unless this is the
\* first non-empty line.
ExtendLines(inline_nodes, first_line, line_content) ==
    IF line_content # <<>>
    THEN (IF first_line THEN inline_nodes ELSE Append(inline_nodes, LineBreak))
         \o line_content
    ELSE inline_nodes

RECURSIVE parse_paragraph_loop(_, _, _, _)

\* "Check what's next": after a line, at cursor pos.
ParagraphNext(chars, pos, inline_nodes, first_line) ==
    IF peek(chars, pos) = NEWLINE_CHAR
    THEN IF peek(chars, pos + 1) = NEWLINE_CHAR
            \/ is_eof(chars, pos + 1)
            \/ is_heading(chars, pos + 1)
         THEN Ok(pos + 1, Paragraph(inline_nodes))
         ELSE parse_paragraph_loop(chars, pos + 1, inline_nodes, first_line)
    ELSE Ok(pos, Paragraph(inline_nodes))

\* One iteration of parse_paragraph; r is `self.parse_inline_content()`.
ParagraphLine(chars, inline_nodes, first_line, r) ==
    IF ~r.ok
    THEN r
    ELSE ParagraphNext(chars, r.pos, ExtendLines(inline_nodes, first_line, r.val),
                       first_line /\ r.val = <<>>)

parse_paragraph_loop(chars, pos, inline_nodes, first_line) ==
    ParagraphLine(chars, inline_nodes, first_line, parse_inline_content(chars, pos))

parse_paragraph(chars, pos) == parse_paragraph_loop(chars, pos, <<>>, TRUE)

\* A block taken as an image at every `!`, whatever follows it.
parse_block_at_any_bang(chars, pos) ==
    IF peek(chars, pos) = IMAGE_PREFIX
    THEN parse_image_block(chars, pos)
    ELSE parse_paragraph(chars, pos)

parse_block(chars, pos) ==
    IF peek(chars, pos) = IMAGE_PREFIX /\ peek_at(chars, pos, 1) = LINK_OPEN
    THEN parse_image_block(chars, pos)
    ELSE parse_paragraph(chars, pos)

(***************************************************************************)
(* Section-level parsing                                                   *)
(***************************************************************************)
\* The end of parse_heading_line; t is the title parse_inline_content returned.
HeadingLineEnd(chars, level, t) ==
    IF ~t.ok
    THEN t
    ELSE Ok(IF peek(chars, t.pos) = NEWLINE_CHAR THEN t.pos + 1 ELSE t.pos,
            [level |-> level, title |-> t.val])

\* The title parsed from behind every space that follows the markers.
RECURSIVE HeadingLineTitleSkipsSpaces(_, _)
HeadingLineTitleSkipsSpaces(chars, lv) ==
    IF ~lv.ok
    THEN lv
    ELSE IF peek(chars, lv.pos) = " "
    THEN HeadingLineTitleSkipsSpaces(chars, Ok(lv.pos + 1, lv.val))
    ELSE HeadingLineEnd(chars, lv.val, parse_inline_content(chars, lv.pos))

\* parse_heading_line after the level; lv is what parse_heading_level returned.
HeadingLineTitle(chars, lv) ==
    IF ~lv.ok
    THEN lv
    ELSE HeadingLineEnd(chars, lv.val,
             parse_inline_content(chars,
                 IF peek(chars, lv.pos) = " " THEN lv.pos + 1 ELSE lv.pos))

parse_heading_line(chars, pos) ==
    HeadingLineTitle(chars, parse_heading_level(chars, pos))

\* Mutant: a heading of the same level is taken as a subsection too.
IsSubsectionOrEqual(next_level, level) == next_level >= level

\* A subsection only when the next heading is one level deeper.
IsSubsectionByOne(next_level, level) == next_level = level + 1

\* `if next_level > level`: the next heading opens a subsection.
IsSubsection(next_level, level) == next_level > level

\* Mutant: the block parsed is not pushed.
PushContentForgotten(section, block) == section

\* `section.content.push(block)`
PushContent(section, block) == [section EXCEPT !.content = Append(@, block)]

\* `section.subsections.push(subsection)`
PushSubsection(section, subsection) ==
    [section EXCEPT !.subsections = Append(@, subsection)]

RECURSIVE parse_section_tree(_, _)
RECURSIVE parse_section_loop(_, _, _)

\* `let subsection = self.parse_section_tree(Some(level))?; push`, then the
\* next iteration.
SectionPushSubsection(chars, section, r) ==
    IF r.ok
    THEN parse_section_loop(chars, r.pos, PushSubsection(section, r.val))
    ELSE r

\* `let block = self.parse_block()?; push`, then the next iteration.
SectionPushBlock(chars, section, r) ==
    IF r.ok
    THEN parse_section_loop(chars, r.pos, PushContent(section, r.val))
    ELSE r

\* The loop of parse_section_tree left at a block, which is not parsed.
SectionStepLeavesBlocks(chars, pos, section) ==
    IF is_eof(chars, pos)
    THEN Ok(pos, section)
    ELSE IF is_heading(chars, pos)
    THEN IF IsSubsection(peek_heading_level(chars, pos), section.level)
         THEN SectionPushSubsection(chars, section, parse_section_tree(chars, pos))
         ELSE Ok(pos, section)
    ELSE Ok(pos, section)

\* One iteration of the loop of parse_section_tree, after skip_empty_lines.
SectionStep(chars, pos, section) ==
    IF is_eof(chars, pos)
    THEN Ok(pos, section)
    ELSE IF is_heading(chars, pos)
    THEN IF IsSubsection(peek_heading_level(chars, pos), section.level)
         THEN SectionPushSubsection(chars, section, parse_section_tree(chars, pos))
         ELSE Ok(pos, section)
    ELSE SectionPushBlock(chars, section, parse_block(chars, pos))

parse_section_loop(chars, pos, section) ==
    SectionStep(chars, skip_empty_lines(chars, pos), section)

\* parse_section_tree after the heading line; h is parse_heading_line's.
SectionOfHeading(chars, h) ==
    IF ~h.ok
    THEN h
    ELSE parse_section_loop(chars, h.pos, SectionNew(h.val.level, h.val.title))

parse_section_tree(chars, pos) ==
    SectionOfHeading(chars, parse_heading_line(chars, pos))

RECURSIVE parse_all_sections_loop(_, _, _)

\* `let section = self.parse_section_tree(None)?; sections.push(section)`
AllSectionsPush(chars, sections, r) ==
    IF r.ok
    THEN parse_all_sections_loop(chars, r.pos, Append(sections, r.val))
    ELSE r

\* One iteration of parse_all_sections, after skip_empty_lines.
AllSectionsStep(chars, pos, sections) ==
    IF is_eof(chars, pos)
    THEN Ok(pos, sections)
    ELSE IF is_heading(chars, pos)
    THEN AllSectionsPush(chars, sections, parse_section_tree(chars, pos))
    ELSE Ok(pos, sections)

parse_all_sections_loop(chars, pos, sections) ==
    IF is_eof(chars, pos)
    THEN Ok(pos, sections)
    ELSE AllSectionsStep(chars, skip_empty_lines(chars, pos), sections)

parse_all_sections(chars, pos) == parse_all_sections_loop(chars, pos, <<>>)

(***************************************************************************)
(* Document-level parsing                                                  *)
(***************************************************************************)
RECURSIVE parse_document_loop(_, _, _)

\* `document.sections = self.parse_all_sections()?; break`
DocumentSections(doc, r) ==
    IF r.ok THEN Ok(r.pos, [doc EXCEPT !.sections = r.val]) ELSE r

\* `document.content.push(self.parse_block()?)`, then the next iteration.
DocumentPushBlock(chars, doc, r) ==
    IF r.ok
    THEN parse_document_loop(chars, r.pos, [doc EXCEPT !.content = Append(@, r.val)])
    ELSE r

\* One iteration of parse_document, after skip_empty_lines.
DocumentStep(chars, pos, doc) ==
    IF is_eof(chars, pos)
    THEN Ok(pos, doc)
    ELSE IF is_heading(chars, pos)
    THEN DocumentSections(doc, parse_all_sections(chars, pos))
    ELSE DocumentPushBlock(chars, doc, parse_block(chars, pos))

parse_document_loop(chars, pos, doc) ==
    IF is_eof(chars, pos)
    THEN Ok(pos, doc)
    ELSE DocumentStep(chars, skip_empty_lines(chars, pos), doc)

parse_document(chars, pos) == parse_document_loop(chars, pos, DocumentNew)

\* MarkdownParser::parse
parse(chars) == parse_document(chars, 0)

(***************************************************************************)
(* The HTML writer (html_writer.rs)                                        *)
(***************************************************************************)
ESCAPE_AMP == <<"&", "a", "m", "p", ";">>
ESCAPE_LT == <<"&", "l", "t", ";">>
ESCAPE_GT == <<"&", "g", "t", ";">>
ESCAPE_QUOT == <<"&", "q", "u", "o", "t", ";">>
ESCAPE_APOS == <<"&", "#", "3", "9", ";">>

TAG_P_OPEN == <<"<", "p", ">">>
TAG_P_CLOSE == <<"<", "/", "p", ">">>
TAG_STRONG_OPEN == <<"<", "s", "t", "r", "o", "n", "g", ">">>
TAG_STRONG_CLOSE == <<"<", "/", "s", "t", "r", "o", "n", "g", ">">>
TAG_EM_OPEN == <<"<", "e", "m", ">">>
TAG_EM_CLOSE == <<"<", "/", "e", "m", ">">>
TAG_BR == <<"<", "b", "r", ">">>
TAG_A_OPEN == <<"<", "a", " ", "h", "r", "e", "f", "=", "\"">>
TAG_A_MIDDLE == <<"\"", ">">>
TAG_A_CLOSE == <<"<", "/", "a", ">">>
TAG_IMG_OPEN == <<"<", "i", "m", "g", " ", "s", "r", "c", "=", "\"">>
TAG_IMG_MIDDLE == <<"\"", " ", "a", "l", "t", "=", "\"">>
TAG_IMG_CLOSE == <<"\"", ">">>

\* TAG_H1_OPEN .. TAG_H6_OPEN and TAG_H1_CLOSE .. TAG_H6_CLOSE, by level.
LevelDigit(level) == <<"1", "2", "3", "4", "5", "6">>[level]
TAG_H_OPEN(level) == <<"<", "h", LevelDigit(level), ">">>
TAG_H_CLOSE(level) == <<"<", "/", "h", LevelDigit(level), ">">>

\* Result<String, HtmlError>
HOk(val) == [ok |-> TRUE, val |-> val, level |-> 0]
HErr(level) == [ok |-> FALSE, val |-> <<>>, level |-> level]

\* str::replace(from, to) for a one-character pattern.
RECURSIVE replace(_, _, _)
replace(content, from, to) ==
    IF content = <<>>
    THEN <<>>
    ELSE (IF Head(content) = from THEN to ELSE <<Head(content)>>)
         \o replace(Tail(content), from, to)

\* Mutant: `&` is replaced last, after the entities of the others are in place.
escape_html_amp_last(content) ==
    replace(replace(replace(replace(replace(content,
        "<", ESCAPE_LT), ">", ESCAPE_GT), "\"", ESCAPE_QUOT), "'", ESCAPE_APOS),
        "&", ESCAPE_AMP)

escape_html(content) ==
    replace(replace(replace(replace(replace(content,
        "&", ESCAPE_AMP), "<", ESCAPE_LT), ">", ESCAPE_GT), "\"", ESCAPE_QUOT),
        "'", ESCAPE_APOS)

\* render_inline and render_inline_nodes return Ok on every path of the source;
\* they are modelled by the string they return.
RECURSIVE render_inline_nodes(_)

render_inline(node) ==
    CASE node.kind = "Text" -> escape_html(node.s)
      [] node.kind = "LineBreak" -> TAG_BR
      [] node.kind = "Bold" ->
            TAG_STRONG_OPEN \o render_inline_nodes(node.children) \o TAG_STRONG_CLOSE
      [] node.kind = "Italic" ->
            TAG_EM_OPEN \o render_inline_nodes(node.children) \o TAG_EM_CLOSE
      [] node.kind = "Link" ->
            TAG_A_OPEN \o escape_html(node.url) \o TAG_A_MIDDLE
            \o render_inline_nodes(node.children) \o TAG_A_CLOSE

render_inline_nodes(nodes) ==
    IF nodes = <<>>
    THEN <<>>
    ELSE render_inline(Head(nodes)) \o render_inline_nodes(Tail(nodes))

\* Mutant: the alt text of an image is written as it is.
render_block_raw_alt(block) ==
    CASE block.kind = "Paragraph" ->
            TAG_P_OPEN \o render_inline_nodes(block.inlines) \o TAG_P_CLOSE
      [] block.kind = "Image" ->
            TAG_IMG_OPEN \o escape_html(block.url) \o TAG_IMG_MIDDLE
            \o block.alt_text \o TAG_IMG_CLOSE

\* render_block returns Ok on every path of the source.
render_block(block) ==
    CASE block.kind = "Paragraph" ->
            TAG_P_OPEN \o render_inline_nodes(block.inlines) \o TAG_P_CLOSE
      [] block.kind = "Image" ->
            TAG_IMG_OPEN \o escape_html(block.url) \o TAG_IMG_MIDDLE
            \o escape_html(block.alt_text) \o TAG_IMG_CLOSE

RECURSIVE render_blocks(_)
render_blocks(blocks) ==
    IF blocks = <<>>
    THEN <<>>
    ELSE render_block(Head(blocks)) \o render_blocks(Tail(blocks))

\* `!(MIN_HEADING_LEVEL..=MAX_HEADING_LEVEL).contains(&level)`
LevelValid(level) == level >= MIN_HEADING_LEVEL /\ level <= MAX_HEADING_LEVEL

render_heading(level, title) ==
    IF ~LevelValid(level)
    THEN HErr(level)
    ELSE HOk(TAG_H_OPEN(level) \o render_inline_nodes(title) \o TAG_H_CLOSE(level))

RECURSIVE render_section(_)
RECURSIVE render_sections(_, _)

\* Mutant: a section that failed to render is left out and the loop goes on.
RenderPushSkipsFailure(rest, output, r) ==
    render_sections(rest, IF r.ok THEN output \o r.val ELSE output)

\* `output.push_str(&self.render_section(section)?)`, then the next section;
\* r is what render_section returned.
RenderPush(rest, output, r) ==
    IF r.ok THEN render_sections(rest, output \o r.val) ELSE r

\* `for section in ..: output.push_str(&self.render_section(section)?)`
render_sections(sections, output) ==
    IF sections = <<>>
    THEN HOk(output)
    ELSE RenderPush(Tail(sections), output, render_section(Head(sections)))

\* Used by the mutant below: the content blocks pushed after r.
PushBlocksAfter(r, blocks) ==
    IF r.ok THEN HOk(r.val \o render_blocks(blocks)) ELSE r

\* Mutant: the subsections are rendered before the content blocks.
RenderSectionBodySubsectionsFirst(section, h) ==
    IF ~h.ok
    THEN h
    ELSE PushBlocksAfter(render_sections(section.subsections, h.val),
                         section.content)

\* render_section after the heading; h is what render_heading returned.
RenderSectionBody(section, h) ==
    IF ~h.ok
    THEN h
    ELSE render_sections(section.subsections,
                         h.val \o render_blocks(section.content))

render_section(section) ==
    RenderSectionBody(section, render_heading(section.level, section.title))

write_html(doc) == render_sections(doc.sections, render_blocks(doc.content))

(***************************************************************************)
(* Inputs                                                                  *)
(***************************************************************************)
RECURSIVE Flatten(_)
Flatten(pieces) ==
    IF pieces = <<>> THEN <<>> ELSE Head(pieces) \o Flatten(Tail(pieces))

\* Every text made of at most n pieces of P.
TextsOf(P, n) == {Flatten(ps) : ps \in UNION {[1..k -> P] : k \in 0..n}}

MaxSectionPieces == 6

\* A heading marker, three of them (so that three pieces exceed the cap of six), a
\* newline, a letter, and a well-formed image on a line of its own.
SectionPieces ==
    {<<"#">>, <<"#", "#", "#">>, <<"\n">>, <<"a">>,
     <<"!", "[", "b", "]", "(", "u", ")", "\n">>}

SectionInputs == TextsOf(SectionPieces, MaxSectionPieces)

(***************************************************************************)
(* The program: a text is parsed, and the document parsed is rendered.     *)
(***************************************************************************)
\* The value of `outcome` before parse has returned.
NoOutcome == Err([kind |-> "NotParsed", delimiter |-> <<>>, position |-> 0, level |-> 0])

\* The value of `resolved` before resolve_path has returned.
NotResolved ==
    [kind |-> "NotResolved", path |-> <<>>, attempted_paths |-> <<>>, reason |-> ""]

\* A router that has looked at no file system.
RouterIdle ==
    /\ fs_files = {}
    /\ read_dir = <<>>
    /\ sitemap = <<>>

\* The value of `cursor` when no loop of the parser is followed.
NoCursor == [loop |-> "", from |-> 0, pos |-> 0, level |-> 0, stop_strings |-> {}]

\* What the server and the router have not done yet; no loop of the parser is
\* followed.
ServerIdle ==
    /\ cursor = NoCursor
    /\ page_title = <<>>
    /\ request_path = <<>>
    /\ resolved = NotResolved
    /\ RouterIdle

Start(inputs) ==
    /\ text \in inputs
    /\ stage = "input"
    /\ outcome = NoOutcome
    /\ document = DocumentNew
    /\ html = HOk(<<>>)
    /\ ServerIdle

Init == Start(SectionInputs)

\* MarkdownParser::parse(text)
Parse ==
    /\ stage = "input"
    /\ outcome' = parse(text)
    /\ stage' = IF outcome'.ok THEN "parsed" ELSE "failed"
    /\ document' = IF outcome'.ok THEN outcome'.val ELSE document
    /\ UNCHANGED <<text, html, page_title, request_path, resolved,
                 fs_files, read_dir, sitemap, cursor>>

\* HtmlWriter::write_html(&document)
Render ==
    /\ stage = "parsed"
    /\ html' = write_html(document)
    /\ stage' = IF html'.ok THEN "rendered" ELSE "render_failed"
    /\ UNCHANGED <<text, outcome, document, page_title, request_path, resolved,
                 fs_files, read_dir, sitemap, cursor>>

Next == Parse \/ Render

Spec == Init /\ [][Next]_vars

(***************************************************************************)
(* The same program on lines of inline markup, bare or as a heading title. *)
(***************************************************************************)
MaxInlinePieces == 5

InlinePieces ==
    {<<"*", "*">>, <<"*">>, <<"[">>, <<"]", "(">>, <<"]">>, <<")">>, <<"\n">>, <<"a">>}

InlinePrefixes == {<<>>, <<"#", " ">>}

InlineInputs ==
    {pre \o t : pre \in InlinePrefixes, t \in TextsOf(InlinePieces, MaxInlinePieces)}

InitInline == Start(InlineInputs)

SpecInline == InitInline /\ [][Next]_vars

(***************************************************************************)
(* The same program on an image block: at the start of the text, after a   *)
(* paragraph, and after a heading.                                         *)
(***************************************************************************)
MaxImagePieces == 5

ImagePieces == {<<"a">>, <<"\\">>, <<"]">>, <<"]", "(">>, <<")">>, <<"\n">>}

ImagePrefixes == {<<>>, <<"a", "\n", "\n">>, <<"#", "\n">>}

ImageInputs ==
    {pre \o <<"!", "[">> \o t :
        pre \in ImagePrefixes, t \in TextsOf(ImagePieces, MaxImagePieces)}

InitImage == Start(ImageInputs)

SpecImage == InitImage /\ [][Next]_vars

(***************************************************************************)
(* The writer alone, on documents built by hand: a block in the preamble,  *)
(* or a section of each level with a title, a block and a subsection.      *)
(***************************************************************************)
MaxContentLen == 2

ContentChars == {<<"&">>, <<"<">>, <<">">>, <<"\"">>, <<"'">>, <<"a">>}

ContentStrings == TextsOf(ContentChars, MaxContentLen)

ShortStrings == TextsOf(ContentChars, 1)

HandBuiltBlocks ==
    UNION {{Paragraph(<<Text(s)>>),
            Paragraph(<<Bold(<<Text(s)>>), LineBreak, Italic(<<Text(u)>>)>>),
            Paragraph(<<Link(<<Text(s)>>, u)>>),
            Paragraph(<<Link(<<Text(u)>>, s)>>),
            Image(s, u),
            Image(u, s)} : s \in ContentStrings, u \in ShortStrings}

HandBuiltSections ==
    {[level |-> l, title |-> <<Text(s)>>, content |-> <<Image(u, s)>>,
      subsections |-> <<SectionNew(6, <<Link(<<Text(u)>>, s)>>)>>] :
        l \in 1..6, s \in ContentStrings, u \in ShortStrings}

HandBuiltDocuments ==
    {[content |-> <<b>>, sections |-> <<>>] : b \in HandBuiltBlocks}
    \cup {[content |-> <<>>, sections |-> <<sec>>] : sec \in HandBuiltSections}

InitWriter ==
    /\ text = <<>>
    /\ stage = "parsed"
    /\ outcome = NoOutcome
    /\ document \in HandBuiltDocuments
    /\ html = HOk(<<>>)
    /\ ServerIdle

NextWriter == Render

SpecWriter == InitWriter /\ [][NextWriter]_vars

(***************************************************************************)
(* escape_html alone.                                                      *)
(***************************************************************************)
MaxEscapeLen == 3

EscapeInputs == TextsOf(ContentChars \cup {<<";">>}, MaxEscapeLen)

InitEscape == Start(EscapeInputs)

\* escape_html(text)
Escape ==
    /\ stage = "input"
    /\ html' = HOk(escape_html(text))
    /\ stage' = "escaped"
    /\ UNCHANGED <<text, outcome, document, page_title, request_path, resolved,
                 fs_files, read_dir, sitemap, cursor>>

NextEscape == Escape

SpecEscape == InitEscape /\ [][NextEscape]_vars

(***************************************************************************)
(* What the text says, read off the text without the parser                *)
(***************************************************************************)
Min(a, b) == IF a < b THEN a ELSE b

RECURSIVE SortedSeq(_)
SortedSeq(S) ==
    IF S = {}
    THEN <<>>
    ELSE LET m == CHOOSE x \in S : \A y \in S : x <= y
         IN  <<m>> \o SortedSeq(S \ {m})

\* The 1-based indices at which a line of the text begins with `#`.
HeadingStarts(chars) ==
    {i \in 1..Len(chars) : chars[i] = "#" /\ (i = 1 \/ chars[i - 1] = "\n")}

\* The number of consecutive `#` from index i on.
RECURSIVE HashRun(_, _)
HashRun(chars, i) ==
    IF i <= Len(chars) /\ chars[i] = "#" THEN 1 + HashRun(chars, i + 1) ELSE 0

\* l1..ln: the levels of the heading lines of the text, in source order.
HeadingLevels(chars) ==
    LET starts == SortedSeq(HeadingStarts(chars))
    IN  [i \in 1..Len(starts) |-> Min(HashRun(chars, starts[i]), 6)]

\* The nearest preceding heading of a smaller level, 0 when there is none.
NearestSmaller(levels, i) ==
    LET cands == {j \in 1..(i - 1) : levels[j] < levels[i]}
    IN  IF cands = {} THEN 0 ELSE CHOOSE j \in cands : \A k \in cands : k <= j

ExpectedPlacement(chars) ==
    LET levels == HeadingLevels(chars)
    IN  [i \in 1..Len(levels) |->
            [level |-> levels[i], parent |-> NearestSmaller(levels, i)]]

\* The sections of a tree in pre-order, each with its level and the pre-order
\* index of the section whose subsections list holds it (0: Document.sections).
\* `n` sections are listed before the first of `sections`.
RECURSIVE Placement(_, _, _)
Placement(sections, parent, n) ==
    IF sections = <<>>
    THEN <<>>
    ELSE LET first == <<[level |-> Head(sections).level, parent |-> parent]>>
                      \o Placement(Head(sections).subsections, n + 1, n + 1)
         IN  first \o Placement(Tail(sections), parent, n + Len(first))

\* C1: heading i is a subsection of the nearest preceding heading of a smaller
\* level, and a top-level section when no preceding heading has a smaller level;
\* every heading line is one section, in source order.
C1_NearestSmallerParent ==
    stage \in {"parsed", "rendered"}
        => Placement(document.sections, 0, 0) = ExpectedPlacement(text)

\* Levels 1, 3, 2: the third heading ends the second and nests under the first.
C1_Witness ==
    /\ stage = "parsed"
    /\ Placement(document.sections, 0, 0) =
           <<[level |-> 1, parent |-> 0], [level |-> 3, parent |-> 1],
             [level |-> 2, parent |-> 1]>>

\* Every section of the list, and of the lists below it, has a level in 1..6
\* that is greater than `above`.
RECURSIVE WellNested(_, _)
WellNested(sections, above) ==
    \A i \in 1..Len(sections) :
        /\ sections[i].level \in 1..6
        /\ sections[i].level > above
        /\ WellNested(sections[i].subsections, sections[i].level)

\* C2: a subsection's level is strictly greater than its container's, and every
\* level lies in 1..6.
C2_LevelsNested ==
    stage \in {"parsed", "rendered"} => WellNested(document.sections, 0)

\* An H1 directly followed by an H4: the H4 is a subsection of the H1.
C2_Witness ==
    /\ stage = "parsed"
    /\ Len(document.sections) = 1
    /\ document.sections[1].level = 1
    /\ Len(document.sections[1].subsections) = 1
    /\ document.sections[1].subsections[1].level = 4

\* The text before the first heading line, and the text from it on.
FirstHeadingStart(chars) ==
    LET hs == HeadingStarts(chars)
    IN  IF hs = {} THEN Len(chars) + 1 ELSE CHOOSE i \in hs : \A j \in hs : i <= j

BeforeFirstHeading(chars) == SubSeq(chars, 1, FirstHeadingStart(chars) - 1)

FromFirstHeading(chars) == SubSeq(chars, FirstHeadingStart(chars), Len(chars))

\* The text with every heading line emptied (its newline kept).
RECURSIVE BlankHeadingLines(_, _, _)
BlankHeadingLines(chars, i, inHeading) ==
    IF i > Len(chars)
    THEN <<>>
    ELSE IF chars[i] = "\n"
    THEN <<"\n">> \o BlankHeadingLines(chars, i + 1, FALSE)
    ELSE IF inHeading \/ i \in HeadingStarts(chars)
    THEN BlankHeadingLines(chars, i + 1, TRUE)
    ELSE <<chars[i]>> \o BlankHeadingLines(chars, i + 1, FALSE)

\* The content blocks of the sections of a tree, in rendering (pre-)order.
RECURSIVE SectionBlocks(_)
SectionBlocks(sections) ==
    IF sections = <<>>
    THEN <<>>
    ELSE Head(sections).content \o SectionBlocks(Head(sections).subsections)
         \o SectionBlocks(Tail(sections))

\* C3: Document.content is exactly the blocks of the text before the first
\* heading line, and the blocks of the text after it (the blocks of that text
\* once its heading lines are emptied) are, in order, the content of the
\* sections: none is in the preamble and none is dropped.
C3_PreambleBeforeFirstHeading ==
    stage \in {"parsed", "rendered"} =>
        LET before == parse(BeforeFirstHeading(text))
            after == parse(BlankHeadingLines(FromFirstHeading(text), 1, FALSE))
        IN  /\ before.ok /\ after.ok
            /\ before.val.sections = <<>> /\ after.val.sections = <<>>
            /\ document.content = before.val.content
            /\ SectionBlocks(document.sections) = after.val.content

\* A preamble block, then a heading with a block of its own.
C3_Witness ==
    /\ stage = "parsed"
    /\ Len(document.content) = 1
    /\ Len(document.sections) = 2
    /\ Len(SectionBlocks(document.sections)) = 2

\* C4: rendering a parsed document never fails with InvalidHeadingLevel.
C4_RenderOfParsedSucceeds ==
    /\ stage # "render_failed"
    /\ stage = "parsed" => write_html(document).ok

\* A heading line of more than six `#` was parsed and rendered.
C4_Witness ==
    /\ stage = "rendered"
    /\ HeadingStarts(text) # {}
    /\ \E i \in HeadingStarts(text) : HashRun(text, i) > 6

(***************************************************************************)
(* The delimiters of a line, read off the text without the parser: a scan  *)
(* with the stack of the constructs that are open.  "B" is a Bold, "I" an  *)
(* Italic, "L" a link in its text, "U" a link in its URL; `start` is the   *)
(* 0-based index of the opening delimiter.  The scan ends with the         *)
(* construct whose own closing scan fails first, or with "none".           *)
(***************************************************************************)
Open(kind, start) == [kind |-> kind, start |-> start]

NoneOpen == Open("none", 0)

TopOf(stack) == IF stack = <<>> THEN NoneOpen ELSE stack[Len(stack)]

Pop(stack) == SubSeq(stack, 1, Len(stack) - 1)

At(chars, i) == IF i < Len(chars) THEN chars[i + 1] ELSE ""

RECURSIVE DelimiterScan(_, _, _)
DelimiterScan(chars, i, stack) ==
    LET c == At(chars, i)
        top == TopOf(stack)
    IN  IF c = "" \/ c = "\n"
        THEN IF stack # <<>>
             THEN top
             ELSE IF c = "" THEN NoneOpen ELSE DelimiterScan(chars, i + 1, <<>>)
        ELSE IF top.kind = "U"
        THEN DelimiterScan(chars, i + 1, IF c = ")" THEN Pop(stack) ELSE stack)
        ELSE IF c = "*" /\ At(chars, i + 1) = "*"
        THEN DelimiterScan(chars, i + 2,
                 IF top.kind = "B" THEN Pop(stack) ELSE Append(stack, Open("B", i)))
        ELSE IF c = "*"
        THEN DelimiterScan(chars, i + 1,
                 IF top.kind = "I" THEN Pop(stack) ELSE Append(stack, Open("I", i)))
        ELSE IF c = "[" /\ top.kind # "L"
        THEN DelimiterScan(chars, i + 1, Append(stack, Open("L", i)))
        ELSE IF c = "]" /\ top.kind = "L"
        THEN IF At(chars, i + 1) = "("
             THEN DelimiterScan(chars, i + 2, Append(Pop(stack), Open("U", top.start)))
             ELSE top
        ELSE DelimiterScan(chars, i + 1, stack)

FirstUnclosed(chars) == DelimiterScan(chars, 0, <<>>)

\* C7: when the closing scan of a Bold (of an Italic) reaches a newline or the
\* end of input, parse fails with UnclosedDelimiter, the delimiter `**` (`*`) and
\* the index of the opening delimiter, and returns no Document; and parse fails
\* with UnclosedDelimiter in no other case.
C7_UnclosedDelimiter ==
    stage # "input" =>
        LET open == FirstUnclosed(text)
        IN  /\ open.kind = "B" =>
                /\ stage = "failed"
                /\ outcome = Err(UnclosedDelimiter(<<"*", "*">>, open.start))
                /\ document = DocumentNew
            /\ open.kind = "I" =>
                /\ stage = "failed"
                /\ outcome = Err(UnclosedDelimiter(<<"*">>, open.start))
                /\ document = DocumentNew
            /\ (~outcome.ok /\ outcome.err.kind = "UnclosedDelimiter")
                   => open.kind \in {"B", "I"}

\* `# **a*a*`: the Bold opened at index 2 holds a closed Italic and meets the
\* end of input.
C7_Witness ==
    /\ stage = "failed"
    /\ text = <<"#", " ", "*", "*", "a", "*", "a", "*">>
    /\ outcome = Err(UnclosedDelimiter(<<"*", "*">>, 2))

\* The index of the first `[` of the text (0-based), Len(chars) when none.
RECURSIVE FirstIndexOf(_, _, _)
FirstIndexOf(chars, set, i) ==
    IF i >= Len(chars) \/ chars[i + 1] \in set
    THEN i
    ELSE FirstIndexOf(chars, set, i + 1)

HasBefore(chars, c, k) == \E i \in 1..k : chars[i] = c

\* The parser meets the first `[`, at index k, as the opening of a link: no
\* construct before it can have failed, and it is in no link text or URL.
MeetsFirstBracket(chars, k) ==
    /\ k < Len(chars)
    /\ ~HasBefore(chars, "\n", k) \/ ~HasBefore(chars, "*", k)

\* What follows the `[` at index k: is the link text closed by `]` before a
\* newline or the end of input, is the `]` followed by `(`, is the URL closed by
\* `)` before a newline or the end of input.
LinkShape(chars, k) ==
    LET close == FirstIndexOf(chars, {"]", "\n"}, k + 1)
        paren == FirstIndexOf(chars, {")", "\n"}, close + 2)
    IN  [textFree |-> \A i \in (k + 1)..(close - 1) : At(chars, i) # "*",
         complete |-> /\ At(chars, close) = "]"
                      /\ At(chars, close + 1) = "("
                      /\ At(chars, paren) = ")"]

RECURSIVE HasLinkIn(_)
HasLinkIn(nodes) ==
    \E i \in 1..Len(nodes) :
        nodes[i].kind = "Link" \/ HasLinkIn(nodes[i].children)

RECURSIVE SectionsHaveLink(_)
BlocksHaveLink(blocks) == \E i \in 1..Len(blocks) : HasLinkIn(blocks[i].inlines)

SectionsHaveLink(sections) ==
    \E i \in 1..Len(sections) :
        \/ HasLinkIn(sections[i].title)
        \/ BlocksHaveLink(sections[i].content)
        \/ SectionsHaveLink(sections[i].subsections)

DocumentHasLink(doc) == BlocksHaveLink(doc.content) \/ SectionsHaveLink(doc.sections)

\* C8: after a `[` met as the opening of a link, with a link text free of `*`,
\* parse fails with MalformedLink at the index of the `[` when the `]`, the `(`
\* right after it, or the `)` is missing on the line; a document with a Link is
\* returned only when the three are there.
C8_MalformedLink ==
    stage # "input" =>
        LET k == FirstIndexOf(text, {"["}, 0)
            shape == LinkShape(text, k)
        IN  (MeetsFirstBracket(text, k) /\ shape.textFree) =>
                /\ ~shape.complete =>
                       /\ stage = "failed"
                       /\ outcome = Err(MalformedLink(k))
                /\ shape.complete => outcome # Err(MalformedLink(k))
                /\ (outcome.ok /\ DocumentHasLink(document)) => shape.complete
                /\ outcome.ok => DocumentHasLink(document)

\* `**[a](`: a `[` in Bold content whose URL meets the end of input.
C8_Witness ==
    /\ stage = "failed"
    /\ text = <<"*", "*", "[", "a", "]", "(">>
    /\ outcome = Err(MalformedLink(2))

(***************************************************************************)
(* An image block, read off the text without the parser.                   *)
(***************************************************************************)
\* The number of consecutive backslashes right before index i, from index
\* `from` on.
RECURSIVE BackslashRun(_, _, _)
BackslashRun(chars, i, from) ==
    IF i > from /\ At(chars, i - 1) = "\\"
    THEN 1 + BackslashRun(chars, i - 1, from)
    ELSE 0

\* The character at index i is escaped: an odd number of backslashes precede it.
Escaped(chars, i, from) == BackslashRun(chars, i, from) % 2 = 1

\* The index of the first unescaped `]` from index `from` on, Len(chars) when none.
AltClose(chars, from) ==
    LET closes == {i \in from..(Len(chars) - 1) :
                      At(chars, i) = "]" /\ ~Escaped(chars, i, from)}
    IN  IF closes = {} THEN Len(chars) ELSE CHOOSE i \in closes : \A j \in closes : i <= j

\* The characters of chars[from .. to) that are not an escaping backslash.
RECURSIVE Unescaped(_, _, _, _)
Unescaped(chars, i, from, to) ==
    IF i >= to
    THEN <<>>
    ELSE (IF At(chars, i) = "\\" /\ ~Escaped(chars, i, from)
          THEN <<>>
          ELSE <<At(chars, i)>>) \o Unescaped(chars, i + 1, from, to)

\* The image block opened by the `!` at index k.
ImageShape(chars, k) ==
    LET close == AltClose(chars, k + 2)
        paren == FirstIndexOf(chars, {")", "\n"}, close + 2)
    IN  [alt |-> Unescaped(chars, k + 2, k + 2, close),
         closed |-> At(chars, close) = "]",
         complete |-> /\ At(chars, close) = "]"
                      /\ At(chars, close + 1) = "("
                      /\ At(chars, paren) = ")"]

AllBlocks(doc) == doc.content \o SectionBlocks(doc.sections)

Images(doc) == SelectSeq(AllBlocks(doc), LAMBDA b : b.kind = "Image")

\* C9: an image block whose `(` is missing, or whose URL meets a newline or the
\* end of input before `)`, makes parse fail with MalformedImage at the index of
\* the `!`; an Image is produced only when `]`, `(` and `)` are all there.
C9_MalformedImage ==
    stage # "input" =>
        LET k == FirstIndexOf(text, {"!"}, 0)
            shape == ImageShape(text, k)
        IN  /\ ~shape.complete =>
                /\ stage = "failed"
                /\ outcome = Err(MalformedImage(k))
            /\ outcome.ok => shape.complete

\* C10: the alt text of the Image is the text between `![` and the first
\* unescaped `]` with every escaping backslash removed: a backslash and the
\* character after it contribute that character only.
C10_AltTextEscapes ==
    stage \in {"parsed", "rendered"} =>
        LET k == FirstIndexOf(text, {"!"}, 0)
            shape == ImageShape(text, k)
        IN  /\ shape.closed
            /\ Len(Images(document)) = 1
            /\ Images(document)[1].alt_text = shape.alt

\* `![\]](a)`: the escaped `]` is the alt text, the next `]` ends it.
C10_Witness ==
    /\ stage = "parsed"
    /\ text = <<"!", "[", "\\", "]", "]", "(", "a", ")">>
    /\ document.content = <<Image(<<"]">>, <<"a">>)>>

(***************************************************************************)
(* The output of the writer, against the structure of the document.        *)
(***************************************************************************)
SpecialChars == {"&", "<", ">", "\"", "'"}

RECURSIVE Count(_, _)
Count(str, set) ==
    IF str = <<>>
    THEN 0
    ELSE (IF Head(str) \in set THEN 1 ELSE 0) + Count(Tail(str), set)

\* The tags, the attribute quotes and the special characters of the content of
\* a list of inline nodes.
RECURSIVE InlineTally(_)
InlineTally(nodes) ==
    IF nodes = <<>>
    THEN [tags |-> 0, quotes |-> 0, specials |-> 0]
    ELSE LET n == Head(nodes)
             own == CASE n.kind = "Text" ->
                            [tags |-> 0, quotes |-> 0,
                             specials |-> Count(n.s, SpecialChars)]
                      [] n.kind = "LineBreak" ->
                            [tags |-> 1, quotes |-> 0, specials |-> 0]
                      [] n.kind \in {"Bold", "Italic"} ->
                            [tags |-> 2, quotes |-> 0, specials |-> 0]
                      [] n.kind = "Link" ->
                            [tags |-> 2, quotes |-> 2,
                             specials |-> Count(n.url, SpecialChars)]
             below == InlineTally(n.children)
             rest == InlineTally(Tail(nodes))
         IN  [tags |-> own.tags + below.tags + rest.tags,
              quotes |-> own.quotes + below.quotes + rest.quotes,
              specials |-> own.specials + below.specials + rest.specials]

RECURSIVE BlockTally(_)
BlockTally(blocks) ==
    IF blocks = <<>>
    THEN [tags |-> 0, quotes |-> 0, specials |-> 0]
    ELSE LET b == Head(blocks)
             own == IF b.kind = "Image"
                    THEN [tags |-> 1, quotes |-> 4,
                          specials |-> Count(b.alt_text, SpecialChars)
                                       + Count(b.url, SpecialChars)]
                    ELSE LET in == InlineTally(b.inlines)
                         IN  [in EXCEPT !.tags = @ + 2]
             rest == BlockTally(Tail(blocks))
         IN  [tags |-> own.tags + rest.tags,
              quotes |-> own.quotes + rest.quotes,
              specials |-> own.specials + rest.specials]

RECURSIVE SectionTally(_)
SectionTally(sections) ==
    IF sections = <<>>
    THEN [tags |-> 0, quotes |-> 0, specials |-> 0]
    ELSE LET sec == Head(sections)
             t == InlineTally(sec.title)
             c == BlockTally(sec.content)
             below == SectionTally(sec.subsections)
             rest == SectionTally(Tail(sections))
         IN  [tags |-> 2 + t.tags + c.tags + below.tags + rest.tags,
              quotes |-> t.quotes + c.quotes + below.quotes + rest.quotes,
              specials |-> t.specials + c.specials + below.specials + rest.specials]

DocumentTally(doc) ==
    LET c == BlockTally(doc.content)
        sec == SectionTally(doc.sections)
    IN  [tags |-> c.tags + sec.tags,
         quotes |-> c.quotes + sec.quotes,
         specials |-> c.specials + sec.specials]

Entities == {ESCAPE_AMP, ESCAPE_LT, ESCAPE_GT, ESCAPE_QUOT, ESCAPE_APOS}

\* Every `&` of the string begins one of the five entities.
AmpersandsAreEntities(str) ==
    \A i \in 1..Len(str) :
        str[i] = "&" =>
            \E e \in Entities :
                i + Len(e) - 1 <= Len(str) /\ SubSeq(str, i, i + Len(e) - 1) = e

\* C5: in the output, `<` and `>` are those of the tags of the document's
\* structure and `"` those of its attributes, there is no `'`, and every `&`
\* begins an entity, one for each special character of the content: no special
\* character of a Text, a URL or an alt text is written raw.
C5_NoRawSpecialCharacter ==
    stage = "rendered" =>
        LET tally == DocumentTally(document)
        IN  /\ Count(html.val, {"<"}) = tally.tags
            /\ Count(html.val, {">"}) = tally.tags
            /\ Count(html.val, {"\""}) = tally.quotes
            /\ Count(html.val, {"'"}) = 0
            /\ Count(html.val, {"&"}) = tally.specials
            /\ AmpersandsAreEntities(html.val)

\* An image whose alt text is `">` and whose URL is `<`.
C5_Witness ==
    /\ stage = "rendered"
    /\ document.content = <<Image(<<"\"", ">">>, <<"<">>)>>
    /\ html.val = TAG_IMG_OPEN \o <<"&", "l", "t", ";">> \o TAG_IMG_MIDDLE
                  \o <<"&", "q", "u", "o", "t", ";", "&", "g", "t", ";">>
                  \o TAG_IMG_CLOSE

(***************************************************************************)
(* escape_html against the substitution of one character at a time.        *)
(***************************************************************************)
EntityOf(c) ==
    CASE c = "&" -> <<"&", "a", "m", "p", ";">>
      [] c = "<" -> <<"&", "l", "t", ";">>
      [] c = ">" -> <<"&", "g", "t", ";">>
      [] c = "\"" -> <<"&", "q", "u", "o", "t", ";">>
      [] c = "'" -> <<"&", "#", "3", "9", ";">>
      [] OTHER -> <<c>>

RECURSIVE SinglePass(_)
SinglePass(str) ==
    IF str = <<>> THEN <<>> ELSE EntityOf(Head(str)) \o SinglePass(Tail(str))

\* C6: escape_html is the substitution of one character at a time; escaping
\* twice differs from escaping once when the string holds one of the five
\* characters, and a string that holds none is unchanged.
C6_EscapeIsSinglePass ==
    stage = "escaped" =>
        /\ html.val = SinglePass(text)
        /\ Count(text, SpecialChars) > 0 => escape_html(html.val) # html.val
        /\ Count(text, SpecialChars) = 0 => html.val = text

\* `<&;`: the `&` of `&lt;` is not escaped again, the `&` of the text is.
C6_Witness ==
    /\ stage = "escaped"
    /\ text = <<"<", "&", ";">>
    /\ html.val = <<"&", "l", "t", ";", "&", "a", "m", "p", ";", ";">>
    /\ escape_html(html.val) # html.val

(***************************************************************************)
(* The same program on the URL of a link and of an image block.            *)
(***************************************************************************)
MaxUrlPieces == 5

UrlPieces == {<<" ">>, <<"\t">>, <<"u">>, <<"u", " ", "u">>, <<"(">>, <<")">>}

\* What is before the URL and what is after the text drawn for it: a link in a
\* paragraph, an image block, a link in the Bold of a heading title, and an
\* image block between two paragraphs.
UrlFrames ==
    {<<<<"[", "a", "]", "(">>, <<>>>>,
     <<<<"!", "[", "a", "]", "(">>, <<>>>>,
     <<<<"#", " ", "*", "*", "[", "a", "]", "(">>, <<"*", "*">>>>,
     <<<<"a", "\n", "\n", "!", "[", "]", "(">>, <<"\n", "b">>>>}

UrlInputs ==
    {f[1] \o t \o f[2] : f \in UrlFrames, t \in TextsOf(UrlPieces, MaxUrlPieces)}

InitUrl == Start(UrlInputs)

SpecUrl == InitUrl /\ [][Next]_vars

(***************************************************************************)
(* The URLs of a document, against the text.                               *)
(***************************************************************************)
WhitespaceChars == {" ", "\t", "\n"}

\* s from its first to its last character that is not whitespace.
Strip(s) ==
    LET keep == {i \in 1..Len(s) : s[i] \notin WhitespaceChars}
    IN  IF keep = {}
        THEN <<>>
        ELSE SubSeq(s, CHOOSE i \in keep : \A j \in keep : i <= j,
                       CHOOSE i \in keep : \A j \in keep : j <= i)

\* The url fields of the Links of a sequence of inline nodes, in order.
RECURSIVE InlineUrls(_)
InlineUrls(nodes) ==
    IF nodes = <<>>
    THEN <<>>
    ELSE (IF Head(nodes).kind = "Link" THEN <<Head(nodes).url>> ELSE <<>>)
         \o InlineUrls(Head(nodes).children) \o InlineUrls(Tail(nodes))

RECURSIVE BlockUrls(_)
BlockUrls(blocks) ==
    IF blocks = <<>>
    THEN <<>>
    ELSE (IF Head(blocks).kind = "Image"
          THEN <<Head(blocks).url>>
          ELSE InlineUrls(Head(blocks).inlines)) \o BlockUrls(Tail(blocks))

RECURSIVE SectionUrls(_)
SectionUrls(sections) ==
    IF sections = <<>>
    THEN <<>>
    ELSE InlineUrls(Head(sections).title) \o BlockUrls(Head(sections).content)
         \o SectionUrls(Head(sections).subsections)
         \o SectionUrls(Tail(sections))

DocumentUrls(doc) == BlockUrls(doc.content) \o SectionUrls(doc.sections)

\* C11: the url of the Link or Image parsed is the text between the `(` and the
\* first `)` after it, without its leading and trailing whitespace and
\* otherwise unchanged; no url parsed starts or ends with whitespace.
C11_UrlTrimmed ==
    stage \in {"parsed", "rendered"} =>
        LET open == FirstIndexOf(text, {"("}, 0)
            close == FirstIndexOf(text, {")"}, open + 1)
            urls == DocumentUrls(document)
        IN  /\ \A i \in 1..Len(urls) :
                   urls[i] # <<>> =>
                       /\ Head(urls[i]) \notin WhitespaceChars
                       /\ urls[i][Len(urls[i])] \notin WhitespaceChars
            /\ At(text, close) = ")" =>
                   urls = <<Strip(SubSeq(text, open + 2, close))>>

\* `[a]( u u\t)`: the whitespace inside the URL stays, that around it goes.
C11_Witness ==
    /\ stage = "parsed"
    /\ text = <<"[", "a", "]", "(", " ", "u", " ", "u", "\t", ")">>
    /\ document.content = <<Paragraph(<<Link(<<Text(<<"a">>)>>, <<"u", " ", "u">>)>>)>>

(***************************************************************************)
(* The same program on lines of text: paragraphs of several lines, blank   *)
(* lines and heading lines between them.                                   *)
(***************************************************************************)
MaxParagraphPieces == 6

ParagraphPieces == {<<"a">>, <<"!">>, <<"*", "b", "*">>, <<"#">>, <<"\n">>}

ParagraphInputs == TextsOf(ParagraphPieces, MaxParagraphPieces)

InitParagraph == Start(ParagraphInputs)

SpecParagraph == InitParagraph /\ [][Next]_vars

(***************************************************************************)
(* The paragraphs of a text, read off its lines.                           *)
(***************************************************************************)
\* The lines of the text; cur is the line being read.
RECURSIVE SplitLines(_, _)
SplitLines(chars, cur) ==
    IF chars = <<>>
    THEN <<cur>>
    ELSE IF Head(chars) = "\n"
    THEN <<cur>> \o SplitLines(Tail(chars), <<>>)
    ELSE SplitLines(Tail(chars), Append(cur, Head(chars)))

\* The maximal runs of consecutive lines that are neither empty nor heading
\* lines; cur is the run being read.
RECURSIVE LineRuns(_, _)
LineRuns(lines, cur) ==
    IF lines = <<>>
    THEN IF cur = <<>> THEN <<>> ELSE <<cur>>
    ELSE IF Head(lines) = <<>> \/ Head(Head(lines)) = "#"
    THEN (IF cur = <<>> THEN <<>> ELSE <<cur>>) \o LineRuns(Tail(lines), <<>>)
    ELSE LineRuns(Tail(lines), Append(cur, Head(lines)))

\* The inline content of one line.
LineInlines(line) == parse_inline_content(line, 0).val

\* The inline content of the lines of a run with a LineBreak between two lines.
RECURSIVE JoinLines(_)
JoinLines(run) ==
    IF Len(run) = 1
    THEN LineInlines(run[1])
    ELSE LineInlines(run[1]) \o <<LineBreak>> \o JoinLines(Tail(run))

RECURSIVE ExpectedParagraphs(_)
ExpectedParagraphs(runs) ==
    IF runs = <<>>
    THEN <<>>
    ELSE <<Paragraph(JoinLines(Head(runs)))>> \o ExpectedParagraphs(Tail(runs))

LineBreaksOf(block) == Len(SelectSeq(block.inlines, LAMBDA n : n.kind = "LineBreak"))

\* C12: the blocks parsed are, in order, one Paragraph for each run of
\* consecutive lines that are neither empty nor heading lines: the inline
\* content of the lines of the run in order, with one LineBreak between two
\* lines and none before the first or after the last.
C12_ParagraphLines ==
    stage \in {"parsed", "rendered"} =>
        LET runs == LineRuns(SplitLines(text, <<>>), <<>>)
            blocks == AllBlocks(document)
        IN  /\ blocks = ExpectedParagraphs(runs)
            /\ \A i \in 1..Len(blocks) :
                   /\ LineBreaksOf(blocks[i]) = Len(runs[i]) - 1
                   /\ Head(blocks[i].inlines) # LineBreak
                   /\ blocks[i].inlines[Len(blocks[i].inlines)] # LineBreak

\* Two lines, a blank line, one line: a Paragraph with one LineBreak, then a
\* Paragraph with none.
C12_Witness ==
    /\ stage = "parsed"
    /\ text = <<"a", "\n", "*", "b", "*", "\n", "\n", "!">>
    /\ document.content =
           <<Paragraph(<<Text(<<"a">>), LineBreak, Italic(<<Text(<<"b">>)>>)>>),
             Paragraph(<<Text(<<"!">>)>>)>>

(***************************************************************************)
(* The same program on blocks and heading lines separated by runs of       *)
(* newlines: a paragraph line, a heading marker, an image block, and an    *)
(* image block whose URL is not closed.                                    *)
(***************************************************************************)
MaxBlankPieces == 6

BlankPieces ==
    {<<"\n">>, <<"a">>, <<"#">>,
     <<"!", "[", "b", "]", "(", "u", ")">>,
     <<"!", "[", "b", "]", "(", "u">>}

BlankInputs == TextsOf(BlankPieces, MaxBlankPieces)

InitBlank == Start(BlankInputs)

SpecBlank == InitBlank /\ [][Next]_vars

(***************************************************************************)
(* The text without the newlines that separate nothing.                    *)
(***************************************************************************)
RECURSIVE DropLeadingNewlines(_)
DropLeadingNewlines(chars) ==
    IF chars # <<>> /\ Head(chars) = "\n"
    THEN DropLeadingNewlines(Tail(chars))
    ELSE chars

RECURSIVE DropTrailingNewlines(_)
DropTrailingNewlines(chars) ==
    IF chars # <<>> /\ chars[Len(chars)] = "\n"
    THEN DropTrailingNewlines(SubSeq(chars, 1, Len(chars) - 1))
    ELSE chars

\* Every run of newlines cut to two at most; run is the length of the run of
\* newlines just before the head of chars.
RECURSIVE CutRuns(_, _)
CutRuns(chars, run) ==
    IF chars = <<>>
    THEN <<>>
    ELSE IF Head(chars) = "\n"
    THEN (IF run >= 2 THEN <<>> ELSE <<"\n">>) \o CutRuns(Tail(chars), run + 1)
    ELSE <<Head(chars)>> \o CutRuns(Tail(chars), 0)

\* No newline at the start, none at the end, and two in a run at most.
WithoutBlankLines(chars) ==
    CutRuns(DropTrailingNewlines(DropLeadingNewlines(chars)), 0)

OnlyNewlines(chars) == \A i \in 1..Len(chars) : chars[i] = "\n"

\* C13: parse returns the same Document for a text as for that text without its
\* leading newlines, its trailing newlines and the third and later newlines of
\* every run; a text of newlines only parses to the empty Document, which
\* renders to the empty string.
C13_BlankLinesCarryNoContent ==
    stage # "input" =>
        LET plain == parse(WithoutBlankLines(text))
        IN  /\ plain.ok = outcome.ok
            /\ outcome.ok => outcome.val = plain.val
            /\ OnlyNewlines(text) =>
                   /\ outcome.ok
                   /\ outcome.val = DocumentNew
                   /\ stage = "rendered" => html = HOk(<<>>)

(***************************************************************************)
(* Newlines of the text and the output.                                    *)
(***************************************************************************)
\* C14: when parse and write_html have both succeeded, the HTML holds no
\* newline character.
C14_NoNewlineInOutput ==
    stage = "rendered" => \A i \in 1..Len(html.val) : html.val[i] # "\n"

(***************************************************************************)
(* The writer alone, on trees of sections built by hand: every forest of   *)
(* at most MaxTreeSections sections, each with a level that is valid or    *)
(* not, with content or without, under a preamble or none.                 *)
(***************************************************************************)
MaxTreeSections == 3


TreeInlines ==
    <<Text(<<"a", "<">>), LineBreak,
      Bold(<<Italic(<<Text(<<"&">>)>>)>>),
      Link(<<Text(<<"b">>)>>, <<"u", "\"", "&">>)>>

TreeParagraph == Paragraph(TreeInlines)

TreeImage == Image(<<"'", "c">>, <<"v", ">">>)

TreeContent == <<TreeParagraph, TreeImage>>

\* The level and the content of a section: the two ends of the valid range
\* 1..6 and the two u8 values next to it, 0 and 7.
TreeLabels ==
    {<<0, <<>>>>, <<1, TreeContent>>, <<6, <<>>>>, <<6, TreeContent>>,
     <<7, TreeContent>>}

TreePreambles == {<<>>, <<TreeImage, TreeParagraph>>}

TreeTitle == <<Text(<<"t", "&">>), Italic(<<Text(<<"i">>)>>)>>

RECURSIVE TreesOf(_)
RECURSIVE ForestsOf(_)

\* The sections of exactly n sections, subsections included.
TreesOf(n) ==
    {[level |-> lb[1], title |-> TreeTitle, content |-> lb[2], subsections |-> f] :
        lb \in TreeLabels, f \in ForestsOf(n - 1)}

\* The sequences of sections of exactly n sections in all.
ForestsOf(n) ==
    IF n = 0
    THEN {<<>>}
    ELSE UNION {{<<t>> \o f : t \in TreesOf(k), f \in ForestsOf(n - k)} : k \in 1..n}

TreeDocuments ==
    {[content |-> c, sections |-> f] :
        c \in TreePreambles, f \in UNION {ForestsOf(n) : n \in 0..MaxTreeSections}}

InitTree ==
    /\ text = <<>>
    /\ stage = "parsed"
    /\ outcome = NoOutcome
    /\ document \in TreeDocuments
    /\ html = HOk(<<>>)
    /\ ServerIdle

SpecTree == InitTree /\ [][NextWriter]_vars

(***************************************************************************)
(* The HTML of a document, written out tag by tag.                         *)
(***************************************************************************)
RECURSIVE InlinesHtml(_)
InlinesHtml(nodes) ==
    IF nodes = <<>>
    THEN <<>>
    ELSE LET n == Head(nodes)
         IN  (CASE n.kind = "Text" -> SinglePass(n.s)
                [] n.kind = "LineBreak" -> <<"<", "b", "r", ">">>
                [] n.kind = "Bold" ->
                      <<"<", "s", "t", "r", "o", "n", "g", ">">>
                      \o InlinesHtml(n.children)
                      \o <<"<", "/", "s", "t", "r", "o", "n", "g", ">">>
                [] n.kind = "Italic" ->
                      <<"<", "e", "m", ">">> \o InlinesHtml(n.children)
                      \o <<"<", "/", "e", "m", ">">>
                [] n.kind = "Link" ->
                      <<"<", "a", " ", "h", "r", "e", "f", "=", "\"">>
                      \o SinglePass(n.url) \o <<"\"", ">">>
                      \o InlinesHtml(n.children) \o <<"<", "/", "a", ">">>)
             \o InlinesHtml(Tail(nodes))

RECURSIVE BlocksHtml(_)
BlocksHtml(blocks) ==
    IF blocks = <<>>
    THEN <<>>
    ELSE LET b == Head(blocks)
         IN  (IF b.kind = "Paragraph"
              THEN <<"<", "p", ">">> \o InlinesHtml(b.inlines) \o <<"<", "/", "p", ">">>
              ELSE <<"<", "i", "m", "g", " ", "s", "r", "c", "=", "\"">>
                   \o SinglePass(b.url)
                   \o <<"\"", " ", "a", "l", "t", "=", "\"">>
                   \o SinglePass(b.alt_text) \o <<"\"", ">">>)
             \o BlocksHtml(Tail(blocks))

DigitOf(n) ==
    CASE n = 1 -> "1" [] n = 2 -> "2" [] n = 3 -> "3"
      [] n = 4 -> "4" [] n = 5 -> "5" [] n = 6 -> "6" [] OTHER -> "?"

RECURSIVE SectionsHtml(_)
SectionsHtml(sections) ==
    IF sections = <<>>
    THEN <<>>
    ELSE LET sec == Head(sections)
         IN  <<"<", "h", DigitOf(sec.level), ">">> \o InlinesHtml(sec.title)
             \o <<"<", "/", "h", DigitOf(sec.level), ">">>
             \o BlocksHtml(sec.content)
             \o SectionsHtml(sec.subsections)
             \o SectionsHtml(Tail(sections))

DocumentHtml(doc) == BlocksHtml(doc.content) \o SectionsHtml(doc.sections)

\* C15: the output of write_html is the preamble blocks in order, then the
\* top-level sections in order, each as its heading, its content blocks, then
\* its subsections, with the tags of the claim and nothing in between.
C15_OutputIsConcatenation ==
    stage = "rendered" => html = HOk(DocumentHtml(document))

\* A preamble, then two top-level sections, the first with content and a
\* subsection.
C15_Witness ==
    /\ stage = "rendered"
    /\ document.content = <<TreeImage, TreeParagraph>>
    /\ Len(document.sections) = 2
    /\ document.sections[1].level = 1
    /\ document.sections[1].content = TreeContent
    /\ Len(document.sections[1].subsections) = 1
    /\ document.sections[2].level = 6
    /\ html.val = DocumentHtml(document)

(***************************************************************************)
(* The levels of the sections of a document, in rendering order.           *)
(***************************************************************************)
RECURSIVE PreorderLevels(_)
PreorderLevels(sections) ==
    IF sections = <<>>
    THEN <<>>
    ELSE <<Head(sections).level>> \o PreorderLevels(Head(sections).subsections)
         \o PreorderLevels(Tail(sections))

InvalidLevels(doc) ==
    SelectSeq(PreorderLevels(doc.sections), LAMBDA l : l \notin 1..6)

\* C16: write_html fails exactly when a section of the tree, at any depth, has
\* a level outside 1..6; the error carries the level of the first such section
\* in rendering order and no HTML comes with it.
C16_InvalidHeadingLevel ==
    stage # "parsed" =>
        IF InvalidLevels(document) = <<>>
        THEN stage = "rendered" /\ html.ok
        ELSE /\ stage = "render_failed"
             /\ html = HErr(Head(InvalidLevels(document)))
             /\ html.val = <<>>

\* A valid section whose subsection has level 7, before a top-level section of
\* level 0: the error names 7.
C16_Witness ==
    /\ stage = "render_failed"
    /\ PreorderLevels(document.sections) = <<1, 7, 0>>
    /\ Len(document.sections) = 2
    /\ Len(document.sections[1].subsections) = 1
    /\ html = HErr(7)

(***************************************************************************)
(* The same program on nested inline markup: Bold, Italic and Link inside  *)
(* one another, in a paragraph or in a heading title.                      *)
(***************************************************************************)
MaxNestPieces == 6

NestPieces ==
    {<<"*", "*">>, <<"*">>, <<"[">>, <<"]", "(", "u", ")">>, <<"a">>, <<"\n">>}

NestPrefixes == {<<>>, <<"#", " ">>}

NestInputs ==
    {pre \o t : pre \in NestPrefixes, t \in TextsOf(NestPieces, MaxNestPieces)}

InitNest == Start(NestInputs)

SpecNest == InitNest /\ [][Next]_vars

(***************************************************************************)
(* The shape of the inline trees of a document.                            *)
(***************************************************************************)
\* The pairs <<kind of a node, kind of the node it is a direct child of>> of
\* the trees of `nodes`; `parent` is that of the nodes themselves.
RECURSIVE Nestings(_, _)
Nestings(nodes, parent) ==
    UNION {{<<nodes[i].kind, parent>>} \cup Nestings(nodes[i].children, nodes[i].kind) :
              i \in 1..Len(nodes)}

BlockNestings(blocks) ==
    UNION {Nestings(blocks[j].inlines, "Paragraph") : j \in 1..Len(blocks)}

RECURSIVE SectionNestings(_)
SectionNestings(sections) ==
    UNION {Nestings(sections[i].title, "Title")
           \cup BlockNestings(sections[i].content)
           \cup SectionNestings(sections[i].subsections) : i \in 1..Len(sections)}

DocumentNestings(doc) == BlockNestings(doc.content) \cup SectionNestings(doc.sections)

\* What C17 allows as a direct child of what.
BoldItalicNesting(kind, parent) ==
    /\ parent = "Bold" => kind \in {"Italic", "Link", "Text"}
    /\ parent = "Italic" => kind \in {"Bold", "Link", "Text"}
    /\ kind = "LineBreak" => parent = "Paragraph"

\* The length of the source of a sequence of inline nodes of one line.
RECURSIVE SourceLen(_)
SourceLen(nodes) ==
    IF nodes = <<>>
    THEN 0
    ELSE LET n == Head(nodes)
         IN  (CASE n.kind = "Text" -> Len(n.s)
                [] n.kind = "Bold" -> 4 + SourceLen(n.children)
                [] n.kind = "Italic" -> 2 + SourceLen(n.children)
                [] n.kind = "Link" -> 4 + SourceLen(n.children) + Len(n.url)
                [] OTHER -> 1)
             + SourceLen(Tail(nodes))

\* The indices in the text of the opening and closing `*` of the Italic nodes
\* of a sequence of inline nodes whose source starts at index off.
RECURSIVE ItalicMarks(_, _)
ItalicMarks(nodes, off) ==
    IF nodes = <<>>
    THEN {}
    ELSE LET n == Head(nodes)
             inner == CASE n.kind = "Bold" -> ItalicMarks(n.children, off + 2)
                        [] n.kind = "Italic" ->
                              {off, off + 1 + SourceLen(n.children)}
                              \cup ItalicMarks(n.children, off + 1)
                        [] n.kind = "Link" -> ItalicMarks(n.children, off + 1)
                        [] OTHER -> {}
         IN  inner \cup ItalicMarks(Tail(nodes), off + SourceLen(<<n>>))

\* The source of a sequence of inline nodes of one line.
RECURSIVE Unparse(_)
Unparse(nodes) ==
    IF nodes = <<>>
    THEN <<>>
    ELSE LET n == Head(nodes)
         IN  (CASE n.kind = "Text" -> n.s
                [] n.kind = "Bold" -> <<"*", "*">> \o Unparse(n.children) \o <<"*", "*">>
                [] n.kind = "Italic" -> <<"*">> \o Unparse(n.children) \o <<"*">>
                [] n.kind = "Link" ->
                      <<"[">> \o Unparse(n.children) \o <<"]", "(">> \o n.url \o <<")">>
                [] OTHER -> <<"\n">>)
             \o Unparse(Tail(nodes))

\* The inline nodes of a document parsed from one line: the title of its
\* heading, or else its paragraph.
LineNodes(doc) ==
    IF doc.sections # <<>>
    THEN doc.sections[1].title
    ELSE IF doc.content # <<>> THEN doc.content[1].inlines ELSE <<>>

\* The index at which the inline content of a one-line text starts.
LineStart(chars) == IF At(chars, 0) = "#" THEN 2 ELSE 0

\* C17: in a Document parsed, a direct child of a Bold is an Italic, a Link or a
\* Text, a direct child of an Italic is a Bold, a Link or a Text, and a
\* LineBreak is a direct child of a Paragraph only; and no `*` that opens or
\* closes an Italic is the first `*` of a `**` of the text.
C17_BoldItalicNesting ==
    stage \in {"parsed", "rendered"} =>
        /\ \A n \in DocumentNestings(document) : BoldItalicNesting(n[1], n[2])
        /\ (\A i \in 1..Len(text) : text[i] # "\n") =>
               /\ Unparse(LineNodes(document))
                      = SubSeq(text, LineStart(text) + 1, Len(text))
               /\ \A p \in ItalicMarks(LineNodes(document), LineStart(text)) :
                      At(text, p) = "*" /\ At(text, p + 1) # "*"

\* `*a**a***`: an Italic that holds a Bold and is closed by the `*` after the
\* `**` that closes the Bold.
C17_Witness ==
    /\ stage = "parsed"
    /\ text = <<"*", "a", "*", "*", "a", "*", "*", "*">>
    /\ document.content =
           <<Paragraph(<<Italic(<<Text(<<"a">>), Bold(<<Text(<<"a">>)>>)>>)>>)>>

\* The inline nodes of the paragraphs and titles of a document, in one sequence.
RECURSIVE BlockInlines(_)
BlockInlines(blocks) ==
    IF blocks = <<>>
    THEN <<>>
    ELSE Head(blocks).inlines \o BlockInlines(Tail(blocks))

RECURSIVE SectionInlines(_)
SectionInlines(sections) ==
    IF sections = <<>>
    THEN <<>>
    ELSE Head(sections).title \o BlockInlines(Head(sections).content)
         \o SectionInlines(Head(sections).subsections)
         \o SectionInlines(Tail(sections))

DocumentInlines(doc) == BlockInlines(doc.content) \o SectionInlines(doc.sections)

\* Some Link of the trees of `nodes` has a Link in its text, at any depth.
RECURSIVE HasLinkInLinkText(_)
HasLinkInLinkText(nodes) ==
    \E i \in 1..Len(nodes) :
        \/ nodes[i].kind = "Link" /\ HasLinkIn(nodes[i].children)
        \/ HasLinkInLinkText(nodes[i].children)

\* C18: in a Document parsed, the text of a Link holds no Link, neither
\* directly nor inside a Bold or an Italic of that text.
C18_NoLinkInLinkText ==
    stage \in {"parsed", "rendered"} =>
        ~HasLinkInLinkText(DocumentInlines(document))

(***************************************************************************)
(* Title extraction of the server (src/src/server.rs)                      *)
(***************************************************************************)
DEFAULT_TITLE == <<"P", "a", "g", "e">>

RECURSIVE inline_nodes_to_text(_)
inline_nodes_to_text(nodes) ==
    IF nodes = <<>>
    THEN <<>>
    ELSE (CASE Head(nodes).kind = "Text" -> Head(nodes).s
            [] Head(nodes).kind = "LineBreak" -> <<" ">>
            [] Head(nodes).kind = "Bold" -> inline_nodes_to_text(Head(nodes).children)
            [] Head(nodes).kind = "Italic" -> inline_nodes_to_text(Head(nodes).children)
            [] Head(nodes).kind = "Link" -> inline_nodes_to_text(Head(nodes).children))
         \o inline_nodes_to_text(Tail(nodes))

\* Mutant: the title is that of the first top-level section of level 1.
extract_title_of_any_h1(doc) ==
    LET h1 == SelectSeq(doc.sections, LAMBDA sec : sec.level = 1)
    IN  IF h1 # <<>> THEN inline_nodes_to_text(Head(h1).title) ELSE DEFAULT_TITLE

extract_title(doc) ==
    IF doc.sections # <<>> /\ Head(doc.sections).level = 1
    THEN inline_nodes_to_text(Head(doc.sections).title)
    ELSE DEFAULT_TITLE

\* `let title = extract_title(&document)` in render_markdown_file.
ExtractTitle ==
    /\ stage = "parsed"
    /\ page_title' = extract_title(document)
    /\ stage' = "titled"
    /\ UNCHANGED <<text, outcome, document, html, request_path, resolved,
                 fs_files, read_dir, sitemap, cursor>>

MaxTitlePieces == 5

TitlePieces ==
    {<<"#", " ">>, <<"#", "#", " ">>, <<"a">>, <<"*", "*", "b", "*", "*">>,
     <<"*", "d", "*">>, <<"[", "c", "]", "(", "u", ")">>, <<"\n">>}

TitleInputs == TextsOf(TitlePieces, MaxTitlePieces)

\* Titles built by hand: a LineBreak at the top and in a link text, nodes
\* nested three deep.
TitleNodes ==
    {<<>>,
     <<Text(<<"x">>), LineBreak,
       Bold(<<Italic(<<Text(<<"y">>)>>),
              Link(<<Text(<<"z">>), LineBreak, Text(<<"w">>)>>, <<"u">>)>>)>>,
     <<Link(<<Bold(<<Text(<<"v">>)>>)>>, <<"u">>), Text(<<"!">>)>>}

TitleSections == {SectionNew(l, t) : l \in {0, 1, 2}, t \in TitleNodes}

TitleDocuments ==
    {[content |-> <<>>, sections |-> secs] :
        secs \in {<<>>} \cup {<<a>> : a \in TitleSections}
                 \cup {<<a, b>> : a \in TitleSections, b \in TitleSections}}

\* A text the server has read, or a Document built by hand.
InitTitle ==
    \/ Start(TitleInputs)
    \/ /\ text = <<>>
       /\ stage = "parsed"
       /\ outcome = NoOutcome
       /\ document \in TitleDocuments
       /\ html = HOk(<<>>)
       /\ ServerIdle

NextTitle == Parse \/ ExtractTitle

SpecTitle == InitTitle /\ [][NextTitle]_vars

(***************************************************************************)
(* The title of a page, read off the document and off the text.            *)
(***************************************************************************)
\* The Text and LineBreak nodes of the trees of `nodes`, left to right.
RECURSIVE Leaves(_)
Leaves(nodes) ==
    IF nodes = <<>>
    THEN <<>>
    ELSE (IF Head(nodes).kind \in {"Text", "LineBreak"}
          THEN <<Head(nodes)>>
          ELSE Leaves(Head(nodes).children)) \o Leaves(Tail(nodes))

RECURSIVE LeafText(_)
LeafText(leaves) ==
    IF leaves = <<>>
    THEN <<>>
    ELSE (IF Head(leaves).kind = "Text" THEN Head(leaves).s ELSE <<" ">>)
         \o LeafText(Tail(leaves))

\* A line without its markup: no `*`, no `[`, and nothing from a `]` to the
\* next `)`; inUrl: the head of chars is between such a `]` and `)`.
RECURSIVE WithoutMarkup(_, _)
WithoutMarkup(chars, inUrl) ==
    IF chars = <<>>
    THEN <<>>
    ELSE IF inUrl
    THEN WithoutMarkup(Tail(chars), Head(chars) # ")")
    ELSE IF Head(chars) = "]"
    THEN WithoutMarkup(Tail(chars), TRUE)
    ELSE (IF Head(chars) \in {"*", "["} THEN <<>> ELSE <<Head(chars)>>)
         \o WithoutMarkup(Tail(chars), FALSE)

\* The title the text gives the page: its first heading line, when that line
\* has one `#`, without the `#`, the space after it and the markup.
TitleOfText(chars) ==
    LET h == FirstHeadingStart(chars)
        end == FirstIndexOf(chars, {"\n"}, h)
        from == IF At(chars, h) = " " THEN h + 2 ELSE h + 1
    IN  IF h <= Len(chars) /\ HashRun(chars, h) = 1
        THEN WithoutMarkup(SubSeq(chars, from, end), FALSE)
        ELSE <<"P", "a", "g", "e">>

ROOT_FILENAME == <<"r", "o", "o", "t", ".", "m", "d">>
MD_EXTENSION == <<".", "m", "d">>
PATH_SEPARATOR == "/"
PARENT_DIR == <<".", ".">>
CURRENT_DIR == <<".">>

\* Router.content_root: an absolute, canonical path.
content_root == <<"/", "s", "i", "t", "e">>

\* Result<ResolvedPath, RouterError>: the variants resolve_path returns, as
\* records of the same fields.
Found(path) ==
    [kind |-> "Found", path |-> path, attempted_paths |-> <<>>, reason |-> ""]
NotFound(attempted_paths) ==
    [kind |-> "NotFound", path |-> <<>>, attempted_paths |-> attempted_paths,
     reason |-> ""]
InvalidPath(path, reason) ==
    [kind |-> "InvalidPath", path |-> path, attempted_paths |-> <<>>,
     reason |-> reason]

\* Result<String, RouterError> of sanitize_path.
Sanitized(path) == [ok |-> TRUE, path |-> path, err |-> NotResolved]
NotSanitized(err) == [ok |-> FALSE, path |-> <<>>, err |-> err]

\* str::trim_start_matches(char)
RECURSIVE trim_start_matches(_, _)
trim_start_matches(s, c) ==
    IF s # <<>> /\ Head(s) = c THEN trim_start_matches(Tail(s), c) ELSE s

\* str::split(char), collected; cur is the component being read.
RECURSIVE split_loop(_, _, _)
split_loop(s, c, cur) ==
    IF s = <<>>
    THEN <<cur>>
    ELSE IF Head(s) = c
    THEN <<cur>> \o split_loop(Tail(s), c, <<>>)
    ELSE split_loop(Tail(s), c, Append(cur, Head(s)))

split(s, c) == split_loop(s, c, <<>>)

\* PathBuf::push on Unix: an absolute path replaces, a relative one is joined.
push(path, s) ==
    IF s # <<>> /\ Head(s) = "/"
    THEN s
    ELSE IF path[Len(path)] = "/" THEN path \o s ELSE path \o <<"/">> \o s

\* The `for component in &components` loop of sanitize_path.
RECURSIVE validate_components(_, _, _)
validate_components(components, url_path, path) ==
    IF components = <<>>
    THEN Sanitized(path)
    ELSE IF Head(components) = PARENT_DIR
    THEN NotSanitized(InvalidPath(url_path, "path contains '..' component"))
    ELSE IF Head(components) = CURRENT_DIR
    THEN NotSanitized(InvalidPath(url_path, "path contains '.' component"))
    ELSE IF Head(components) = <<>>
    THEN NotSanitized(InvalidPath(url_path,
                                  "path contains empty component (double slash)"))
    ELSE validate_components(Tail(components), url_path, path)

\* sanitize_path after the leading slashes are removed.
sanitize_trimmed(url_path, path) ==
    IF path = <<>>
    THEN Sanitized(<<>>)
    ELSE validate_components(split(path, PATH_SEPARATOR), url_path, path)

sanitize_path(url_path) ==
    IF Len(url_path) > 1 /\ url_path[Len(url_path)] = PATH_SEPARATOR
    THEN NotSanitized(InvalidPath(url_path, "trailing slashes are not allowed"))
    ELSE sanitize_trimmed(url_path, trim_start_matches(url_path, PATH_SEPARATOR))

build_file_path(sanitized_path) == push(content_root, sanitized_path \o MD_EXTENSION)

last_component(sanitized_path) ==
    split(sanitized_path, PATH_SEPARATOR)[Len(split(sanitized_path, PATH_SEPARATOR))]

build_dir_index_path(sanitized_path) ==
    push(push(content_root, sanitized_path),
         last_component(sanitized_path) \o MD_EXTENSION)

\* resolve_path for the root: `sanitized.is_empty()`.
resolve_root(files) ==
    IF push(content_root, ROOT_FILENAME) \in files
    THEN Found(push(content_root, ROOT_FILENAME))
    ELSE NotFound(<<push(content_root, ROOT_FILENAME)>>)

\* The two tries in the other order: the direct file before the directory
\* index.
resolve_tries_file_first(sanitized, files) ==
    IF build_file_path(sanitized) \in files
    THEN Found(build_file_path(sanitized))
    ELSE IF build_dir_index_path(sanitized) \in files
    THEN Found(build_dir_index_path(sanitized))
    ELSE NotFound(<<build_dir_index_path(sanitized), build_file_path(sanitized)>>)

\* "Try 1" and "Try 2" of resolve_path.
resolve_tries(sanitized, files) ==
    IF build_dir_index_path(sanitized) \in files
    THEN Found(build_dir_index_path(sanitized))
    ELSE IF build_file_path(sanitized) \in files
    THEN Found(build_file_path(sanitized))
    ELSE NotFound(<<build_dir_index_path(sanitized), build_file_path(sanitized)>>)

\* resolve_path on a path that is not the root; components is the split path.
resolve_components(sanitized, components, files) ==
    IF Len(components) >= 2
       /\ components[Len(components)] = components[Len(components) - 1]
    THEN NotFound(<<>>)
    ELSE resolve_tries(sanitized, files)

\* resolve_path after `self.sanitize_path(url_path)?`; r is what it returned.
resolve_sanitized(r, files) ==
    IF ~r.ok
    THEN r.err
    ELSE IF r.path = <<>>
    THEN resolve_root(files)
    ELSE resolve_components(r.path, split(r.path, PATH_SEPARATOR), files)

\* `files`: the paths that exist and are files.
resolve_path(url_path, files) == resolve_sanitized(sanitize_path(url_path), files)

MaxPathPieces == 5

PathPieces == {<<"/">>, <<".">>, <<"a">>, <<"b">>}

PathInputs == TextsOf(PathPieces, MaxPathPieces)

\* The paths a request for url_path may look up: the file system holds any of
\* them, or none.
LookedUp(url_path) ==
    {push(content_root, ROOT_FILENAME)}
    \cup (IF trim_start_matches(url_path, PATH_SEPARATOR) = <<>>
          THEN {}
          ELSE {build_dir_index_path(trim_start_matches(url_path, PATH_SEPARATOR)),
                build_file_path(trim_start_matches(url_path, PATH_SEPARATOR))})

InitRouter ==
    /\ text = <<>>
    /\ stage = "request"
    /\ outcome = NoOutcome
    /\ document = DocumentNew
    /\ html = HOk(<<>>)
    /\ page_title = <<>>
    /\ request_path \in PathInputs
    /\ resolved = NotResolved
    /\ fs_files \in SUBSET LookedUp(request_path)
    /\ read_dir = <<>>
    /\ sitemap = <<>>
    /\ cursor = NoCursor

\* Router::resolve_path(request_path), on the file system `fs_files`.
Resolve ==
    /\ stage = "request"
    /\ resolved' = resolve_path(request_path, fs_files)
    /\ stage' = "resolved"
    /\ UNCHANGED <<text, outcome, document, html, page_title, request_path,
                 fs_files, read_dir, sitemap, cursor>>

NextRouter == Resolve

SpecRouter == InitRouter /\ [][NextRouter]_vars

(***************************************************************************)
(* What a URL path is, read off its characters.                            *)
(***************************************************************************)
\* The parts of a string between the occurrences of c.
SplitOn(chars, c) ==
    LET cuts == <<0>> \o SortedSeq({i \in 1..Len(chars) : chars[i] = c})
                \o <<Len(chars) + 1>>
    IN  [k \in 1..(Len(cuts) - 1) |-> SubSeq(chars, cuts[k] + 1, cuts[k + 1] - 1)]

\* The parts of the URL path between its slashes, the first one (before the
\* leading slash) left out.
UrlComponents(chars) ==
    LET parts == SplitOn(chars, "/")
    IN  IF chars # <<>> /\ Head(chars) = "/" THEN Tail(parts) ELSE parts

HasDoubleSlash(chars) ==
    \E i \in 1..(Len(chars) - 1) : chars[i] = "/" /\ chars[i + 1] = "/"

HasTrailingSlash(chars) == Len(chars) > 1 /\ chars[Len(chars)] = "/"

HasComponent(chars, c) ==
    \E i \in 1..Len(UrlComponents(chars)) : UrlComponents(chars)[i] = c

\* The path is the content root followed by components none of which is `..`,
\* `.` or empty.
UnderContentRoot(path) ==
    /\ Len(path) > Len(content_root) + 1
    /\ SubSeq(path, 1, Len(content_root) + 1) = content_root \o <<"/">>
    /\ LET below == SplitOn(SubSeq(path, Len(content_root) + 2, Len(path)), "/")
       IN  \A i \in 1..Len(below) : below[i] \notin {<<>>, <<".">>, <<".", ".">>}

\* C20: resolve_path returns Err(InvalidPath), and never Found, for a URL path
\* with a `..` component, a `.` component, a double slash or, when longer than
\* one character, a trailing slash; a path it returns as Found is the content
\* root followed by components of the URL and stays under the content root.
C20_InvalidPathNeverFound ==
    stage = "resolved" =>
        /\ (\/ HasComponent(request_path, <<".", ".">>)
            \/ HasComponent(request_path, <<".">>)
            \/ HasDoubleSlash(request_path)
            \/ HasTrailingSlash(request_path)) => resolved.kind = "InvalidPath"
        /\ resolved.kind = "Found" => UnderContentRoot(resolved.path)

(***************************************************************************)
(* The files a URL path names, read off its characters.                    *)
(***************************************************************************)
\* The non-empty parts of the URL path between its slashes.
PathComponents(chars) == SelectSeq(SplitOn(chars, "/"), LAMBDA c : c # <<>>)

\* The components, each behind a slash.
RECURSIVE Slashed(_)
Slashed(components) ==
    IF components = <<>>
    THEN <<>>
    ELSE <<"/">> \o Head(components) \o Slashed(Tail(components))

\* <root>/p/n.md and <root>/p.md for the path p whose last component is n.
IndexFileOf(components) ==
    content_root \o Slashed(components) \o <<"/">>
    \o components[Len(components)] \o <<".", "m", "d">>

DirectFileOf(components) == content_root \o Slashed(components) \o <<".", "m", "d">>

LastTwoEqual(components) ==
    Len(components) >= 2
    /\ components[Len(components)] = components[Len(components) - 1]

\* C21: for a URL path that resolve_path accepts and that is not the root, when
\* the last two components differ the result is Found(<root>/p/n.md) whenever
\* that file exists, Found(<root>/p.md) only when it does not and p.md exists,
\* and otherwise NotFound listing the index path then the direct path; when the
\* last two components are equal the result is NotFound whatever files exist.
C21_DirectoryIndexFirst ==
    (stage = "resolved" /\ resolved.kind # "InvalidPath"
     /\ PathComponents(request_path) # <<>>) =>
        LET components == PathComponents(request_path)
            index == IndexFileOf(components)
            direct == DirectFileOf(components)
        IN  IF LastTwoEqual(components)
            THEN resolved.kind = "NotFound"
            ELSE IF index \in fs_files
            THEN resolved = Found(index)
            ELSE IF direct \in fs_files
            THEN resolved = Found(direct)
            ELSE resolved = NotFound(<<index, direct>>)

\* /a/b with both a/b/b.md and a/b.md present resolves to the directory index.
C21_Witness ==
    /\ stage = "resolved"
    /\ request_path = <<"/", "a", "/", "b">>
    /\ fs_files = {<<"/", "s", "i", "t", "e", "/", "a", "/", "b", "/", "b", ".", "m", "d">>,
                   <<"/", "s", "i", "t", "e", "/", "a", "/", "b", ".", "m", "d">>}
    /\ resolved = Found(<<"/", "s", "i", "t", "e", "/", "a", "/", "b", "/", "b", ".", "m", "d">>)

(***************************************************************************)
(* Router::resolve_404 (src/src/router.rs)                                 *)
(***************************************************************************)
NOTFOUND_FILENAME == <<"4", "0", "4", ".", "m", "d">>

\* Option<PathBuf>, as records of the fields of `resolved`.
Some(path) ==
    [kind |-> "Some", path |-> path, attempted_paths |-> <<>>, reason |-> ""]
None == [kind |-> "None", path |-> <<>>, attempted_paths |-> <<>>, reason |-> ""]

\* `for component in components.iter().take(depth) { path.push(component) }`
RECURSIVE push_components(_, _)
push_components(path, components) ==
    IF components = <<>>
    THEN path
    ELSE push_components(push(path, Head(components)), Tail(components))

\* The 404.md path resolve_404 builds at one depth.
notfound_path(components, depth) ==
    push(push_components(content_root, SubSeq(components, 1, depth)),
         NOTFOUND_FILENAME)

\* The depths tried from the shallowest to the deepest.
RECURSIVE resolve_404_ascending(_, _, _)
resolve_404_ascending(components, depth, files) ==
    IF depth > Len(components)
    THEN None
    ELSE IF notfound_path(components, depth) \in files
    THEN Some(notfound_path(components, depth))
    ELSE resolve_404_ascending(components, depth + 1, files)

resolve_404_shallowest_first(components, files) ==
    resolve_404_ascending(components, 0, files)

\* `for depth in (0..=components.len()).rev()`
RECURSIVE resolve_404_loop(_, _, _)
resolve_404_loop(components, depth, files) ==
    IF depth < 0
    THEN None
    ELSE IF notfound_path(components, depth) \in files
    THEN Some(notfound_path(components, depth))
    ELSE resolve_404_loop(components, depth - 1, files)

resolve_404_components(components, files) ==
    resolve_404_loop(components, Len(components), files)

\* resolve_404 after `self.sanitize_path(url_path).ok()?`; r is what
\* sanitize_path returned.
resolve_404_sanitized(r, files) ==
    IF ~r.ok
    THEN None
    ELSE resolve_404_components(IF r.path = <<>>
                                THEN <<>>
                                ELSE split(r.path, PATH_SEPARATOR),
                                files)

resolve_404(url_path, files) == resolve_404_sanitized(sanitize_path(url_path), files)

\* The 404.md files a request for url_path may look up, and one in a directory
\* that may be off its chain.
NotFoundPages(url_path) ==
    LET components == split(trim_start_matches(url_path, PATH_SEPARATOR),
                            PATH_SEPARATOR)
    IN  {notfound_path(components, depth) : depth \in 0..Len(components)}
        \cup {notfound_path(<<<<"b">>>>, 1)}

InitNotFound ==
    /\ text = <<>>
    /\ stage = "request"
    /\ outcome = NoOutcome
    /\ document = DocumentNew
    /\ html = HOk(<<>>)
    /\ page_title = <<>>
    /\ request_path \in PathInputs
    /\ resolved = NotResolved
    /\ fs_files \in SUBSET NotFoundPages(request_path)
    /\ read_dir = <<>>
    /\ sitemap = <<>>
    /\ cursor = NoCursor

\* Router::resolve_404(request_path), on the file system `fs_files`.
Resolve404 ==
    /\ stage = "request"
    /\ resolved' = resolve_404(request_path, fs_files)
    /\ stage' = "resolved_404"
    /\ UNCHANGED <<text, outcome, document, html, page_title, request_path,
                 fs_files, read_dir, sitemap, cursor>>

NextNotFound == Resolve404

SpecNotFound == InitNotFound /\ [][NextNotFound]_vars

(***************************************************************************)
(* The chain of directories of a URL path, read off its characters.        *)
(***************************************************************************)
\* <root>/c1/../ck/404.md for the first k components of the URL path.
NotFoundPageAt(chars, k) ==
    content_root \o Slashed(SubSeq(PathComponents(chars), 1, k))
    \o <<"/", "4", "0", "4", ".", "m", "d">>

\* The depths of the chain whose directory holds a 404.md.
DepthsWithPage(chars) ==
    {k \in 0..Len(PathComponents(chars)) : NotFoundPageAt(chars, k) \in fs_files}

Deepest(depths) == CHOOSE k \in depths : \A j \in depths : j <= k

\* C22: resolve_404 returns None when sanitize_path rejects the URL path or no
\* directory of the chain <root>/c1/../ck, .., <root>/c1, <root> holds a 404.md,
\* and otherwise the 404.md of the deepest directory of the chain that holds
\* one.
C22_DeepestNotFoundPage ==
    stage = "resolved_404" =>
        IF ~sanitize_path(request_path).ok \/ DepthsWithPage(request_path) = {}
        THEN resolved = None
        ELSE resolved = Some(NotFoundPageAt(request_path,
                                            Deepest(DepthsWithPage(request_path))))

\* /a/b with a 404.md in <root> and in <root>/a: the one of <root>/a is returned.
C22_Witness ==
    /\ stage = "resolved_404"
    /\ request_path = <<"/", "a", "/", "b">>
    /\ fs_files = {<<"/", "s", "i", "t", "e", "/", "4", "0", "4", ".", "m", "d">>,
                   <<"/", "s", "i", "t", "e", "/", "a", "/", "4", "0", "4", ".", "m", "d">>}
    /\ resolved = Some(<<"/", "s", "i", "t", "e", "/", "a", "/", "4", "0", "4", ".", "m", "d">>)

(***************************************************************************)
(* Router::build_sitemap (src/src/router.rs)                               *)
(*                                                                         *)
(* The file system is the set `files` of the paths that are files, a       *)
(* directory being a path with a file below it, and `listing`, which gives *)
(* for each directory the names fs::read_dir yields, in the order it       *)
(* yields them.  read_dir does not fail.                                   *)
(***************************************************************************)
ROOT_URL_PATH == <<"/">>

\* SitemapEntry::new, and an entry with its children.
SitemapEntryNew(name, url_path) ==
    [name |-> name, url_path |-> url_path, children |-> <<>>]

WithChildren(entry, children) == [entry EXCEPT !.children = children]

ends_with(s, suffix) ==
    Len(s) >= Len(suffix)
    /\ SubSeq(s, Len(s) - Len(suffix) + 1, Len(s)) = suffix

\* str::strip_suffix(..).unwrap_or(s)
strip_suffix(s, suffix) ==
    IF ends_with(s, suffix) THEN SubSeq(s, 1, Len(s) - Len(suffix)) ELSE s

is_dir(path, files) ==
    \E f \in files :
        Len(f) > Len(path) + 1 /\ SubSeq(f, 1, Len(path) + 1) = path \o <<"/">>

\* The byte of a character of a name.
CharCode(c) ==
    CASE c = "." -> 46 [] c = "0" -> 48 [] c = "4" -> 52
      [] c = "a" -> 97 [] c = "b" -> 98 [] c = "c" -> 99 [] c = "d" -> 100
      [] c = "m" -> 109 [] c = "o" -> 111 [] c = "r" -> 114 [] c = "t" -> 116

\* a.cmp(b) == Ordering::Greater, on strings.
RECURSIVE cmp_greater(_, _)
cmp_greater(a, b) ==
    IF a = <<>>
    THEN FALSE
    ELSE IF b = <<>>
    THEN TRUE
    ELSE IF Head(a) = Head(b)
    THEN cmp_greater(Tail(a), Tail(b))
    ELSE CharCode(Head(a)) > CharCode(Head(b))

\* One entry put in its place in a sorted list, behind the entries that are
\* not greater.
RECURSIVE insert_by_name(_, _)
insert_by_name(sorted, entry) ==
    IF sorted = <<>>
    THEN <<entry>>
    ELSE IF cmp_greater(Head(sorted).name, entry.name)
    THEN <<entry>> \o sorted
    ELSE <<Head(sorted)>> \o insert_by_name(Tail(sorted), entry)

\* `children.sort_by(|a, b| a.name.cmp(&b.name))`: a stable sort.
RECURSIVE sort_by_name(_)
sort_by_name(entries) ==
    IF entries = <<>>
    THEN <<>>
    ELSE insert_by_name(sort_by_name(SubSeq(entries, 1, Len(entries) - 1)),
                        entries[Len(entries)])

\* The URL path of an entry: format!("/{}", name) or format!("{}/{}", ..).
entry_url_path(url_prefix, name) ==
    IF url_prefix = <<>> THEN <<"/">> \o name ELSE url_prefix \o <<"/">> \o name

\* The branch of scan_directory for a markdown file: the entries after it.
scan_file(dir_path, url_prefix, entries, index_filename, file_name, files) ==
    IF file_name = NOTFOUND_FILENAME \/ file_name = ROOT_FILENAME
    THEN entries
    ELSE IF index_filename # <<>> /\ file_name = index_filename
    THEN entries
    ELSE IF is_dir(push(dir_path, strip_suffix(file_name, MD_EXTENSION)), files)
            /\ push(push(dir_path, strip_suffix(file_name, MD_EXTENSION)), file_name)
               \in files
    THEN entries
    ELSE Append(entries,
                SitemapEntryNew(strip_suffix(file_name, MD_EXTENSION),
                                entry_url_path(url_prefix,
                                               strip_suffix(file_name, MD_EXTENSION))))

\* The `for entry in dir_entries` loop of scan_directory; index_filename is
\* <<>> for None.
RECURSIVE scan_entries(_, _, _, _, _, _, _)
scan_entries(dir_path, url_prefix, names, entries, index_filename, files, listing) ==
    IF names = <<>>
    THEN entries
    ELSE IF push(dir_path, Head(names)) \in files /\ ends_with(Head(names), MD_EXTENSION)
    THEN scan_entries(dir_path, url_prefix, Tail(names),
                      scan_file(dir_path, url_prefix, entries, index_filename,
                                Head(names), files),
                      index_filename, files, listing)
    ELSE IF is_dir(push(dir_path, Head(names)), files)
            /\ push(push(dir_path, Head(names)), Head(names) \o MD_EXTENSION) \in files
    THEN scan_entries(dir_path, url_prefix, Tail(names),
             Append(entries,
                 WithChildren(
                     SitemapEntryNew(Head(names), entry_url_path(url_prefix, Head(names))),
                     sort_by_name(
                         scan_entries(push(dir_path, Head(names)),
                                      entry_url_path(url_prefix, Head(names)),
                                      listing[push(dir_path, Head(names))],
                                      <<>>, Head(names) \o MD_EXTENSION,
                                      files, listing)))),
             index_filename, files, listing)
    ELSE scan_entries(dir_path, url_prefix, Tail(names), entries, index_filename,
                      files, listing)

scan_directory(dir_path, url_prefix, entries, index_filename, files, listing) ==
    scan_entries(dir_path, url_prefix, listing[dir_path], entries, index_filename,
                 files, listing)

build_sitemap(files, listing) ==
    scan_directory(content_root, <<>>,
                   IF push(content_root, ROOT_FILENAME) \in files
                   THEN <<SitemapEntryNew(strip_suffix(ROOT_FILENAME, MD_EXTENSION),
                                          ROOT_URL_PATH)>>
                   ELSE <<>>,
                   <<>>, files, listing)

\* The largest number of files of a content directory.
MaxSiteFiles == 4

\* The files a content directory may hold.
SiteFiles ==
    {content_root \o p :
        p \in {<<"/", "r", "o", "o", "t", ".", "m", "d">>,
               <<"/", "4", "0", "4", ".", "m", "d">>,
               <<"/", "a", ".", "m", "d">>,
               <<"/", "b", ".", "m", "d">>,
               <<"/", "c", ".", "m", "d">>,
               <<"/", "b", "/", "b", ".", "m", "d">>,
               <<"/", "b", "/", "a", ".", "m", "d">>,
               <<"/", "b", "/", "c", ".", "m", "d">>,
               <<"/", "b", "/", "r", "o", "o", "t", ".", "m", "d">>,
               <<"/", "c", "/", "a", ".", "m", "d">>,
               <<"/", "b", "/", "c", "/", "c", ".", "m", "d">>,
               <<"/", "b", "/", "c", "/", "a", ".", "m", "d">>}}

\* The directories of a set of files: the content root and every path with a
\* file below it.
DirectoriesOf(fileset) ==
    {content_root}
    \cup {d \in UNION {{SubSeq(f, 1, i) : i \in 1..Len(f)} : f \in fileset} :
              Len(d) > Len(content_root) /\ is_dir(d, fileset)}

\* The names in a directory: of its files and of its directories.
NamesIn(dir, fileset) ==
    {split(SubSeq(f, Len(dir) + 2, Len(f)), PATH_SEPARATOR)[1] :
        f \in {g \in fileset : Len(g) > Len(dir) + 1
                              /\ SubSeq(g, 1, Len(dir) + 1) = dir \o <<"/">>}}

\* The orders in which a set of names can be listed.
OrdersOf(names) ==
    {s \in [1..Cardinality(names) -> names] :
        \A i, j \in 1..Cardinality(names) : s[i] = s[j] => i = j}

\* The listings read_dir can give of the directories dirs: any order for each.
RECURSIVE ListingsOver(_, _)
ListingsOver(dirs, fileset) ==
    IF dirs = {}
    THEN {<<>>}
    ELSE LET d == CHOOSE x \in dirs : TRUE
         IN  {(d :> order) @@ rest :
                 order \in OrdersOf(NamesIn(d, fileset)),
                 rest \in ListingsOver(dirs \ {d}, fileset)}

ListingsOf(fileset) == ListingsOver(DirectoriesOf(fileset), fileset)

InitSitemap ==
    /\ text = <<>>
    /\ stage = "site"
    /\ outcome = NoOutcome
    /\ document = DocumentNew
    /\ html = HOk(<<>>)
    /\ page_title = <<>>
    /\ request_path = <<>>
    /\ resolved = NotResolved
    /\ fs_files \in {s \in SUBSET SiteFiles : Cardinality(s) <= MaxSiteFiles}
    /\ read_dir \in ListingsOf(fs_files)
    /\ sitemap = <<>>
    /\ cursor = NoCursor

\* Router::build_sitemap()
BuildSitemap ==
    /\ stage = "site"
    /\ sitemap' = build_sitemap(fs_files, read_dir)
    /\ stage' = "sitemap"
    /\ UNCHANGED <<text, outcome, document, html, page_title, request_path, resolved,
                 fs_files, read_dir, cursor>>

NextSitemap == BuildSitemap

SpecSitemap == InitSitemap /\ [][NextSitemap]_vars

(***************************************************************************)
(* Order of the entries of a sitemap.                                      *)
(***************************************************************************)
\* The names of a list of entries do not decrease.
InNameOrder(entries) ==
    \A i \in 1..(Len(entries) - 1) : ~cmp_greater(entries[i].name, entries[i + 1].name)

RECURSIVE ChildrenInNameOrder(_)
ChildrenInNameOrder(entries) ==
    \A i \in 1..Len(entries) :
        /\ InNameOrder(entries[i].children)
        /\ ChildrenInNameOrder(entries[i].children)

\* C23: the entries build_sitemap returns are in the order of their names at
\* every level: the top-level list and the children of every entry.
C23_SitemapSorted ==
    stage = "sitemap" => InNameOrder(sitemap) /\ ChildrenInNameOrder(sitemap)

(***************************************************************************)
(* Heading lines: runs of `#`, spaces and a letter.                        *)
(***************************************************************************)
MaxHeadingPieces == 6

HeadingPieces == {<<"#">>, <<"#", "#", "#">>, <<" ">>, <<"a">>, <<"\n">>}

HeadingInputs == TextsOf(HeadingPieces, MaxHeadingPieces)

InitHeading == Start(HeadingInputs)

SpecHeading == InitHeading /\ [][Next]_vars

\* The line that begins at index i, without its newline.
RECURSIVE LineFrom(_, _)
LineFrom(chars, i) ==
    IF i > Len(chars) \/ chars[i] = "\n"
    THEN <<>>
    ELSE <<chars[i]>> \o LineFrom(chars, i + 1)

\* A string without its first space, when it begins with one.
DropOneSpace(s) == IF s # <<>> /\ Head(s) = " " THEN Tail(s) ELSE s

\* The level and the title of a heading line read off the line: min(n, 6) for
\* its n leading `#`, and what follows that many characters, less one space.
HeadingOfLine(line) ==
    LET level == Min(HashRun(line, 1), 6)
        rest == DropOneSpace(SubSeq(line, level + 1, Len(line)))
    IN  <<level, IF rest = <<>> THEN <<>> ELSE <<Text(rest)>>>>

ExpectedHeadings(chars) ==
    LET starts == SortedSeq(HeadingStarts(chars))
    IN  [i \in 1..Len(starts) |-> HeadingOfLine(LineFrom(chars, starts[i]))]

\* The level and title of the sections of a tree, in pre-order.
RECURSIVE PreorderHeadings(_)
PreorderHeadings(sections) ==
    IF sections = <<>>
    THEN <<>>
    ELSE <<<<Head(sections).level, Head(sections).title>>>>
         \o PreorderHeadings(Head(sections).subsections)
         \o PreorderHeadings(Tail(sections))

\* C24: a heading line that starts with n >= 1 `#` has level min(n, 6); the `#`
\* beyond the sixth begin the title text; at most one space after the markers
\* is dropped before the title; and at every position of the text
\* peek_heading_level returns the level parse_heading_level returns there (0
\* where it fails), parse_heading_level leaving the cursor behind that many
\* `#`.
C24_HeadingLevelAndTitle ==
    /\ stage \in {"parsed", "rendered"} =>
           PreorderHeadings(document.sections) = ExpectedHeadings(text)
    /\ stage # "input" => outcome.ok
    /\ \A pos \in 0..Len(text) :
           LET r == parse_heading_level(text, pos)
               n == Min(HashRun(text, pos + 1), 6)
           IN  /\ peek_heading_level(text, pos) = n
               /\ IF n >= 1 THEN r = Ok(pos + n, n) ELSE r = Err(InvalidHeadingLevel(0))

\* Seven `#`, a space and a letter: level 6, and the seventh `#` and the space
\* are title text.
C24_Witness ==
    /\ stage = "parsed"
    /\ text = <<"#", "#", "#", "#", "#", "#", "#", " ", "a">>
    /\ document.sections = <<SectionNew(6, <<Text(<<"#", " ", "a">>)>>)>>

(***************************************************************************)
(* Blocks: `!`, `[b](u)`, a letter, `#` and newlines.                      *)
(***************************************************************************)
MaxBlockPieces == 6

BlockPieces ==
    {<<"a">>, <<"!">>, <<"[", "b", "]", "(", "u", ")">>, <<"#">>, <<"\n">>}

BlockInputs == TextsOf(BlockPieces, MaxBlockPieces)

InitBlock == Start(BlockInputs)

SpecBlock == InitBlock /\ [][Next]_vars

\* The inline nodes of a line of these texts: every `[` opens `[b](u)`, a
\* Link, and what lies between the links is Text; cur is the text being read.
RECURSIVE InlinesOfLine(_, _)
InlinesOfLine(line, cur) ==
    IF line = <<>>
    THEN IF cur = <<>> THEN <<>> ELSE <<Text(cur)>>
    ELSE IF Head(line) = "["
    THEN (IF cur = <<>> THEN <<>> ELSE <<Text(cur)>>)
         \o <<Link(<<Text(<<"b">>)>>, <<"u">>)>>
         \o InlinesOfLine(SubSeq(line, 7, Len(line)), <<>>)
    ELSE InlinesOfLine(Tail(line), Append(cur, Head(line)))

\* The lines of a paragraph, a LineBreak between one and the next.
RECURSIVE BrokenLines(_)
BrokenLines(lines) ==
    IF lines = <<>>
    THEN <<>>
    ELSE IF Len(lines) = 1
    THEN InlinesOfLine(Head(lines), <<>>)
    ELSE InlinesOfLine(Head(lines), <<>>) \o <<LineBreak>> \o BrokenLines(Tail(lines))

\* The blocks of a text, read from index i where a block may start
\* (BlocksFrom) or where a line of a paragraph starts (ParagraphFrom): a block
\* is an Image when it starts with `!` then `[`; a Paragraph runs over the
\* lines that follow it up to an empty line, a line that starts with `#` or the
\* end; a `#` where a block may start opens a heading line, which holds no
\* block.
RECURSIVE BlocksFrom(_, _)
RECURSIVE ParagraphFrom(_, _, _)
BlocksFrom(chars, i) ==
    IF i > Len(chars)
    THEN <<>>
    ELSE IF chars[i] = "\n"
    THEN BlocksFrom(chars, i + 1)
    ELSE IF chars[i] = "#"
    THEN BlocksFrom(chars, i + Len(LineFrom(chars, i)) + 1)
    ELSE IF chars[i] = "!" /\ i < Len(chars) /\ chars[i + 1] = "["
    THEN <<Image(<<"b">>, <<"u">>)>> \o BlocksFrom(chars, i + 7)
    ELSE ParagraphFrom(chars, i, <<>>)

ParagraphFrom(chars, i, lines) ==
    LET line == LineFrom(chars, i)
        k == i + Len(line)
    IN  IF k >= Len(chars) \/ chars[k + 1] \in {"\n", "#"}
        THEN <<Paragraph(BrokenLines(Append(lines, line)))>> \o BlocksFrom(chars, k + 1)
        ELSE ParagraphFrom(chars, k + 1, Append(lines, line))

\* C25: a block is an Image exactly when it starts with `!` then `[`, and a
\* Paragraph otherwise; `![b](u)` later on a line of a paragraph, or at the
\* start of a line that continues one, is the text `!` and a Link.
C25_ImageOnlyAtBlockStart ==
    /\ stage # "input" => outcome.ok
    /\ stage \in {"parsed", "rendered"} => AllBlocks(document) = BlocksFrom(text, 1)

\* A paragraph of two lines that both hold `![b](u)`: behind a letter, and at
\* the start of the continuation line.  Neither is an Image.
C25_Witness ==
    /\ stage = "parsed"
    /\ text = <<"a", "!", "[", "b", "]", "(", "u", ")", "\n",
                "!", "[", "b", "]", "(", "u", ")">>
    /\ document.content =
           <<Paragraph(<<Text(<<"a", "!">>), Link(<<Text(<<"b">>)>>, <<"u">>),
                         LineBreak,
                         Text(<<"!">>), Link(<<Text(<<"b">>)>>, <<"u">>)>>)>>

(***************************************************************************)
(* Backslashes outside image alt text                                      *)
(***************************************************************************)
MaxBackslashPieces == 5

BackslashPieces == {<<"\\">>, <<"*">>, <<"[">>, <<"]", "(">>, <<")">>, <<"a">>}

\* A paragraph line, and the title of a heading line.
BackslashPrefixes == {<<>>, <<"#", " ">>}

BackslashInputs ==
    {pre \o t : pre \in BackslashPrefixes,
                t \in TextsOf(BackslashPieces, MaxBackslashPieces)}

InitBackslash == Start(BackslashInputs)

SpecBackslash == InitBackslash /\ [][Next]_vars

\* A string with a letter in the place of every backslash.
LetterForBackslash(s) == [i \in 1..Len(s) |-> IF s[i] = "\\" THEN "a" ELSE s[i]]

\* A tree with a letter in the place of every backslash of its texts and URLs.
RECURSIVE InlinesLettered(_)
InlinesLettered(nodes) ==
    [i \in 1..Len(nodes) |->
        [kind |-> nodes[i].kind,
         s |-> LetterForBackslash(nodes[i].s),
         children |-> InlinesLettered(nodes[i].children),
         url |-> LetterForBackslash(nodes[i].url)]]

BlocksLettered(blocks) ==
    [i \in 1..Len(blocks) |->
        [kind |-> blocks[i].kind,
         inlines |-> InlinesLettered(blocks[i].inlines),
         alt_text |-> LetterForBackslash(blocks[i].alt_text),
         url |-> LetterForBackslash(blocks[i].url)]]

RECURSIVE SectionsLettered(_)
SectionsLettered(sections) ==
    [i \in 1..Len(sections) |->
        [level |-> sections[i].level,
         title |-> InlinesLettered(sections[i].title),
         content |-> BlocksLettered(sections[i].content),
         subsections |-> SectionsLettered(sections[i].subsections)]]

DocumentLettered(doc) ==
    [content |-> BlocksLettered(doc.content),
     sections |-> SectionsLettered(doc.sections)]

\* What parse returned, with a letter in the place of every backslash.
OutcomeLettered(r) ==
    IF r.ok THEN Ok(r.pos, DocumentLettered(r.val)) ELSE r

\* C26: outside image alt text a backslash is an ordinary character: in
\* paragraph text, heading titles, Bold and Italic content, link text and URLs
\* parse returns for a text what it returns for the text with a letter in the
\* place of every backslash (the same tree with the backslashes where the
\* letters are, or the same error), so the character after a backslash keeps
\* its meaning.
C26_BackslashIsOrdinary ==
    stage # "input" =>
        OutcomeLettered(outcome) = parse(LetterForBackslash(text))

\* `[\](a)`: the `]` behind the backslash closes the link text, which is the
\* backslash.
C26_Witness ==
    /\ stage = "parsed"
    /\ text = <<"[", "\\", "]", "(", "a", ")">>
    /\ document.content = <<Paragraph(<<Link(<<Text(<<"\\">>)>>, <<"a">>)>>)>>

(***************************************************************************)
(* The loops of the parser, one iteration at a time                        *)
(*                                                                         *)
(* `cursor` follows one loop of parser.rs: cursor.pos is self.pos at the   *)
(* top of the next iteration and cursor.from is what it was at the top of  *)
(* the iteration before.  An iteration goes on to the next one, leaves the *)
(* loop (break, return Ok) or fails (return Err); the functions an         *)
(* iteration calls are run to their end.                                   *)
(***************************************************************************)
Continue(pos) == [kind |-> "continue", pos |-> pos]
Return(pos) == [kind |-> "return", pos |-> pos]
Fail == [kind |-> "fail", pos |-> 0]

\* `nodes.push(self.parse_bold()?)` and the like, then the next iteration.
ContinueAfter(r) == IF r.ok THEN Continue(r.pos) ELSE Fail

\* `while !self.is_eof()` of parse_document
document_iteration(chars, pos) ==
    LET p == skip_empty_lines(chars, pos)
    IN  IF is_eof(chars, pos) \/ is_eof(chars, p)
        THEN Return(p)
        ELSE IF is_heading(chars, p)
        THEN (IF parse_all_sections(chars, p).ok
              THEN Return(parse_all_sections(chars, p).pos)
              ELSE Fail)
        ELSE ContinueAfter(parse_block(chars, p))

\* `while !self.is_eof()` of parse_all_sections
all_sections_iteration(chars, pos) ==
    LET p == skip_empty_lines(chars, pos)
    IN  IF is_eof(chars, pos) \/ is_eof(chars, p)
        THEN Return(p)
        ELSE IF is_heading(chars, p)
        THEN ContinueAfter(parse_section_tree(chars, p))
        ELSE Return(p)

\* `loop` of parse_section_tree, for a section of the given level
section_iteration(chars, pos, level) ==
    LET p == skip_empty_lines(chars, pos)
    IN  IF is_eof(chars, p)
        THEN Return(p)
        ELSE IF is_heading(chars, p)
        THEN (IF peek_heading_level(chars, p) > level
              THEN ContinueAfter(parse_section_tree(chars, p))
              ELSE Return(p))
        ELSE ContinueAfter(parse_block(chars, p))

\* The loop of parse_paragraph with a newline that is looked at and left.
paragraph_iteration_newline_left(chars, pos) ==
    LET r == parse_inline_content(chars, pos)
    IN  IF ~r.ok
        THEN Fail
        ELSE IF peek(chars, r.pos) = NEWLINE_CHAR
        THEN (IF peek(chars, r.pos + 1) = NEWLINE_CHAR \/ is_eof(chars, r.pos + 1)
                 \/ is_heading(chars, r.pos + 1)
              THEN Return(r.pos + 1)
              ELSE Continue(r.pos))
        ELSE Return(r.pos)

\* `loop` of parse_paragraph
paragraph_iteration(chars, pos) ==
    LET r == parse_inline_content(chars, pos)
    IN  IF ~r.ok
        THEN Fail
        ELSE IF peek(chars, r.pos) = NEWLINE_CHAR
        THEN (IF peek(chars, r.pos + 1) = NEWLINE_CHAR \/ is_eof(chars, r.pos + 1)
                 \/ is_heading(chars, r.pos + 1)
              THEN Return(r.pos + 1)
              ELSE Continue(r.pos + 1))
        ELSE Return(r.pos)

\* `while !self.is_eof() && self.peek() != Some(NEWLINE_CHAR)` of
\* parse_inline_content
inline_content_iteration(chars, pos) ==
    IF is_eof(chars, pos) \/ peek(chars, pos) = NEWLINE_CHAR
    THEN Return(pos)
    ELSE IF starts_with(chars, pos, BOLD_DELIM)
    THEN ContinueAfter(parse_bold(chars, pos))
    ELSE IF AtItalicDelim(chars, pos)
    THEN ContinueAfter(parse_italic(chars, pos))
    ELSE IF peek(chars, pos) = LINK_OPEN
    THEN ContinueAfter(parse_link(chars, pos))
    ELSE ContinueAfter(parse_text_inline(chars, pos))

\* `while !self.is_eof()` of parse_bold
bold_iteration(chars, pos) ==
    IF is_eof(chars, pos)
    THEN Fail
    ELSE IF starts_with(chars, pos, BOLD_DELIM)
    THEN Return(pos + 2)
    ELSE IF peek(chars, pos) = NEWLINE_CHAR
    THEN Fail
    ELSE IF AtItalicDelim(chars, pos)
    THEN ContinueAfter(parse_italic(chars, pos))
    ELSE IF peek(chars, pos) = LINK_OPEN
    THEN ContinueAfter(parse_link(chars, pos))
    ELSE ContinueAfter(parse_text_until(chars, pos, BoldStops))

\* `while !self.is_eof()` of parse_italic
italic_iteration(chars, pos) ==
    IF is_eof(chars, pos)
    THEN Fail
    ELSE IF AtItalicDelim(chars, pos)
    THEN Return(pos + 1)
    ELSE IF peek(chars, pos) = NEWLINE_CHAR
    THEN Fail
    ELSE IF starts_with(chars, pos, BOLD_DELIM)
    THEN ContinueAfter(parse_bold(chars, pos))
    ELSE IF peek(chars, pos) = LINK_OPEN
    THEN ContinueAfter(parse_link(chars, pos))
    ELSE ContinueAfter(parse_text_until(chars, pos, ItalicStops))

\* `while !self.is_eof() && self.peek() != Some(LINK_CLOSE)` of parse_link
link_text_iteration(chars, pos) ==
    IF is_eof(chars, pos) \/ peek(chars, pos) = LINK_CLOSE
    THEN Return(pos)
    ELSE IF peek(chars, pos) = NEWLINE_CHAR
    THEN Fail
    ELSE IF starts_with(chars, pos, BOLD_DELIM)
    THEN ContinueAfter(parse_bold(chars, pos))
    ELSE IF AtItalicDelim(chars, pos)
    THEN ContinueAfter(parse_italic(chars, pos))
    ELSE ContinueAfter(parse_text_until(chars, pos, LinkStops))

\* `while !self.is_eof() && self.peek() != Some(URL_CLOSE)` of parse_link
link_url_iteration(chars, pos) ==
    IF is_eof(chars, pos) \/ peek(chars, pos) = URL_CLOSE
    THEN Return(pos)
    ELSE IF peek(chars, pos) = NEWLINE_CHAR
    THEN Fail
    ELSE Continue(pos + 1)

\* `while let Some(ch) = self.peek()` of parse_image_block, the alt text
image_alt_iteration(chars, pos) ==
    IF peek(chars, pos) = NoChar
    THEN Return(pos)
    ELSE IF peek(chars, pos) = ESCAPE_CHAR
    THEN Continue(AltEscape(chars, pos, <<>>).pos)
    ELSE IF peek(chars, pos) = LINK_CLOSE
    THEN Return(pos + 1)
    ELSE Continue(pos + 1)

\* `while let Some(ch) = self.peek()` of parse_image_block, the URL
image_url_iteration(chars, pos) ==
    IF peek(chars, pos) = NoChar
    THEN Return(pos)
    ELSE IF peek(chars, pos) = URL_CLOSE
    THEN Return(pos + 1)
    ELSE IF peek(chars, pos) = NEWLINE_CHAR
    THEN Fail
    ELSE Continue(pos + 1)

\* `while let Some(ch) = self.peek()` of parse_text_inline
text_inline_iteration(chars, pos) ==
    IF peek(chars, pos) \in {NoChar, NEWLINE_CHAR, ITALIC_DELIM, LINK_OPEN}
    THEN Return(pos)
    ELSE Continue(pos + 1)

\* `while let Some(ch) = self.peek()` of parse_text_until
text_until_iteration(chars, pos, stop_strings) ==
    IF peek(chars, pos) = NoChar
       \/ \E stop_str \in stop_strings : starts_with(chars, pos, stop_str)
    THEN Return(pos)
    ELSE Continue(pos + 1)

\* The loops of the parser, by the function that holds them.
Loops ==
    {"parse_document", "parse_all_sections", "parse_section_tree", "parse_paragraph",
     "parse_inline_content", "parse_bold", "parse_italic", "parse_link (text)",
     "parse_link (url)", "parse_image_block (alt_text)", "parse_image_block (url)",
     "parse_text_inline", "parse_text_until"}

\* One iteration of the loop the cursor follows.
iteration(chars, c) ==
    CASE c.loop = "parse_document" -> document_iteration(chars, c.pos)
      [] c.loop = "parse_all_sections" -> all_sections_iteration(chars, c.pos)
      [] c.loop = "parse_section_tree" -> section_iteration(chars, c.pos, c.level)
      [] c.loop = "parse_paragraph" -> paragraph_iteration(chars, c.pos)
      [] c.loop = "parse_inline_content" -> inline_content_iteration(chars, c.pos)
      [] c.loop = "parse_bold" -> bold_iteration(chars, c.pos)
      [] c.loop = "parse_italic" -> italic_iteration(chars, c.pos)
      [] c.loop = "parse_link (text)" -> link_text_iteration(chars, c.pos)
      [] c.loop = "parse_link (url)" -> link_url_iteration(chars, c.pos)
      [] c.loop = "parse_image_block (alt_text)" -> image_alt_iteration(chars, c.pos)
      [] c.loop = "parse_image_block (url)" -> image_url_iteration(chars, c.pos)
      [] c.loop = "parse_text_inline" -> text_inline_iteration(chars, c.pos)
      [] c.loop = "parse_text_until" ->
             text_until_iteration(chars, c.pos, c.stop_strings)

MaxLoopPieces == 3

LoopPieces ==
    {<<"#">>, <<"*", "*">>, <<"*">>, <<"[">>, <<"]", "(">>, <<")">>, <<"!", "[">>,
     <<"\\">>, <<"\n">>}

LoopInputs == TextsOf(LoopPieces, MaxLoopPieces)

\* The cursors a loop can be entered with: any position of the text; any level
\* for the loop of a section, any of the three sets of stop strings the parser
\* passes for parse_text_until.
CursorsOf(chars) ==
    {[loop |-> l, from |-> p, pos |-> p, level |-> lv, stop_strings |-> st] :
        l \in Loops \ {"parse_section_tree", "parse_text_until"},
        p \in 0..Len(chars), lv \in {0}, st \in {{}}}
    \cup {[loop |-> "parse_section_tree", from |-> p, pos |-> p, level |-> lv,
           stop_strings |-> {}] :
             p \in 0..Len(chars), lv \in MIN_HEADING_LEVEL..MAX_HEADING_LEVEL}
    \cup {[loop |-> "parse_text_until", from |-> p, pos |-> p, level |-> 0,
           stop_strings |-> st] :
             p \in 0..Len(chars), st \in {BoldStops, ItalicStops, LinkStops}}

InitLoop ==
    /\ text \in LoopInputs
    /\ stage = "loop"
    /\ outcome = NoOutcome
    /\ document = DocumentNew
    /\ html = HOk(<<>>)
    /\ page_title = <<>>
    /\ request_path = <<>>
    /\ resolved = NotResolved
    /\ RouterIdle
    /\ cursor \in CursorsOf(text)

\* One iteration of the loop the cursor follows.
Iterate ==
    /\ stage \in {"loop", "next_iteration"}
    /\ stage' = CASE iteration(text, cursor).kind = "continue" -> "next_iteration"
                  [] iteration(text, cursor).kind = "return" -> "loop_left"
                  [] iteration(text, cursor).kind = "fail" -> "loop_failed"
    /\ cursor' = [cursor EXCEPT !.from = cursor.pos,
                                !.pos = IF iteration(text, cursor).kind = "fail"
                                        THEN cursor.pos
                                        ELSE iteration(text, cursor).pos]
    /\ UNCHANGED <<text, outcome, document, html, page_title, request_path, resolved,
                 fs_files, read_dir, sitemap>>

NextLoop == Iterate

SpecLoop == InitLoop /\ [][NextLoop]_vars

\* C27: every iteration of every loop of the parser that goes on to a next
\* iteration has advanced the cursor by at least one character; an iteration
\* that leaves its loop has not moved it back; and the cursor never passes the
\* end of the text.  So a loop entered at any position ends after at most as
\* many iterations as characters are left, and parse terminates.
C27_EveryIterationAdvances ==
    /\ stage = "next_iteration" => cursor.pos > cursor.from
    /\ stage = "loop_left" => cursor.pos >= cursor.from
    /\ cursor.pos <= Len(text)

\* The loop of parse_paragraph goes on from the line behind a newline: the
\* iteration has consumed the first line and the newline.
C27_Witness ==
    /\ stage = "next_iteration"
    /\ text = <<"\\", "\n", "\\">>
    /\ cursor.loop = "parse_paragraph"
    /\ cursor.from = 0
    /\ cursor.pos = 2

\* C28: when parse returns Ok the cursor is at the end of the text, so no input
\* is left unread; the cursor parse_section_tree returns with at any heading of
\* the text is at the end of the text or on a `#`, so that parse_all_sections
\* never meets a block.
C28_WholeInputConsumed ==
    /\ (stage # "input" /\ outcome.ok) => outcome.pos = Len(text)
    /\ \A pos \in 0..(Len(text) - 1) :
           (is_heading(text, pos) /\ parse_section_tree(text, pos).ok) =>
               \/ parse_section_tree(text, pos).pos = Len(text)
               \/ is_heading(text, parse_section_tree(text, pos).pos)

\* A section with a block, then a section of the same level:
\* parse_section_tree returns on the second heading, and parse ends at the end
\* of the text.
C28_Witness ==
    /\ stage = "parsed"
    /\ text = <<"#", "\n", "a", "\n", "#">>
    /\ parse_section_tree(text, 0).pos = 4
    /\ Len(document.sections) = 2
    /\ outcome.pos = 5

\* The levels of a list of sibling sections do not increase, here and in every
\* list of subsections below.
RECURSIVE SiblingsNonIncreasing(_)
SiblingsNonIncreasing(sections) ==
    /\ \A i \in 1..(Len(sections) - 1) : sections[i + 1].level <= sections[i].level
    /\ \A i \in 1..Len(sections) : SiblingsNonIncreasing(sections[i].subsections)

\* C29: in every Document parse returns, the levels of the sections of
\* Document.sections, and of every Section.subsections, do not increase from
\* one sibling to the next.
C29_SiblingLevelsNonIncreasing ==
    stage \in {"parsed", "rendered"} => SiblingsNonIncreasing(document.sections)

\* Levels 1, 3, 2: the H3 and the H2 are siblings under the H1, in that order.
C29_Witness ==
    /\ stage = "parsed"
    /\ Len(document.sections) = 1
    /\ Len(document.sections[1].subsections) = 2
    /\ document.sections[1].subsections[1].level = 3
    /\ document.sections[1].subsections[2].level = 2

(***************************************************************************)
(* Texts that fail to parse                                                *)
(***************************************************************************)
MaxErrorPieces == 4

ErrorInputs == TextsOf(LoopPieces, MaxErrorPieces)

InitError == Start(ErrorInputs)

SpecError == InitError /\ [][Next]_vars

\* C30: a failing parse returns UnclosedDelimiter, MalformedLink or
\* MalformedImage, and no other error: not InvalidHeadingLevel, for
\* parse_heading_level at any `#` of the text counts a level of at least 1, and
\* not UnexpectedEndOfInput.
C30_ErrorKinds ==
    /\ stage = "failed" =>
           outcome.err.kind \in {"UnclosedDelimiter", "MalformedLink", "MalformedImage"}
    /\ \A pos \in 0..(Len(text) - 1) :
           is_heading(text, pos) =>
               /\ parse_heading_level(text, pos).ok
               /\ parse_heading_level(text, pos).val >= MIN_HEADING_LEVEL

\* A heading whose title opens a Bold that the end of input leaves open.
C30_Witness ==
    /\ stage = "failed"
    /\ text = <<"#", "*", "*">>
    /\ outcome = Err(UnclosedDelimiter(<<"*", "*">>, 1))

====
